---- MODULE Spec2Model ----
(***************************************************************************)
(* Task scheduler of the codex session (codex-rs/core/src/tasks): the      *)
(* active_turn slot, the submission loop that calls spawn_task and         *)
(* abort_all_tasks, and the run futures that tokio::spawn puts on the      *)
(* multi-threaded runtime.  Every await point and every statement that     *)
(* another worker thread can interleave with is a step of its own.         *)
(*                                                                         *)
(* The functions around the scheduler that are called on their own (MCP    *)
(* result conversion, run_with_timeout, MCP server configuration, the      *)
(* environments of MCP servers and shell commands, the JSON event          *)
(* processor of the headless runner, the API key reader of the proxy, the  *)
(* approval overlay of the terminal frontend) share the variable libcall:  *)
(* LibSpec draws one call or object from bounded arguments and applies the *)
(* functions to it.                                                        *)
(***************************************************************************)
EXTENDS Integers, Sequences, FiniteSets, TLC

\* Bounds of the model.
MaxSubs == 2        \* submissions that spawn a task
MaxCalls == 1       \* tool calls one turn dispatches
MaxAborts == 1      \* Interrupt / Shutdown operations
MaxLateSteps == 1   \* steps a future still takes in the poll that handle.abort() interrupts

SubIds == 1 .. MaxSubs
NoSub == 0

TaskKinds == {"Regular", "Compact", "Review"}
ToolKinds == {"ExecCommand", "McpToolCall"}
\* ExecCommand stands for the calls the approval policy prompts for (shell and
\* apply_patch follow the same approval pattern), McpToolCall for those that go
\* ahead without a prompt.
ApprovalTools == {"ExecCommand"}
UserDecisions == {"Approved", "ApprovedForSession", "Denied"}
\* command fingerprints of the shell calls the model asks for
Fingerprints == {"F"}
LastMessages == {"none", "msg"}

VARIABLES
    active_turn,        \* Session::active_turn: Option<ActiveTurn>
    futures,            \* the run futures given to tokio::spawn, by sub_id
    events,             \* the event bus: what send_event has sent, in order
    caller,             \* the submission loop: its position in spawn_task / abort_all_tasks
    pending_approvals,  \* call ids with a one-shot sink installed
    approval_reply,     \* what each one-shot sink was fulfilled with
    next_sub,           \* next fresh submission id
    aborts_done,        \* Interrupt / Shutdown operations processed
    abort_saw,          \* history: what handle.is_finished() returned for a taken task
    session_approvals,  \* fingerprints the user approved for the rest of the session
    conversation_history, \* the model-turn items sent again on every re-entry
    libcall             \* a call of a library function: its arguments, state and result

\* the state of the scheduler, and the state of the calls of library functions
schedvars == <<active_turn, futures, events, caller, pending_approvals,
               approval_reply, next_sub, aborts_done, abort_saw,
               session_approvals, conversation_history>>
libvars == <<libcall>>
vars == <<schedvars, libvars>>

\* no library call in progress
NoCall == [op |-> "none"]

----------------------------------------------------------------------------
\* Events

Ev(s, m, t, c, a) == [id |-> s, msg |-> m, tool |-> t, call |-> c, arg |-> a]

TaskStarted(s) == Ev(s, "TaskStarted", "-", 0, "-")
TaskComplete(s, v) == Ev(s, "TaskComplete", "-", 0, v)
\* Faulty variant: TurnAborted carries Replaced whatever reason was handed down
TurnAbortedAlwaysReplaced(s, reason) == Ev(s, "TurnAborted", "-", 0, "Replaced")
TurnAborted(s, reason) == Ev(s, "TurnAborted", "-", 0, reason)
ExitedReviewMode(s) == Ev(s, "ExitedReviewMode", "-", 0, "-")
ApprovalRequest(s, t, c, f) == Ev(s, "ApprovalRequest", t, c, f)
ToolBegin(s, t, c) == Ev(s, "Begin", t, c, "-")
ToolEnd(s, t, c) == Ev(s, "End", t, c, "-")

IsTerminal(e) == e.msg \in {"TaskComplete", "TurnAborted"}

\* Call ids are fresh per (submission, call number).
CallId(s, n) == s * 10 + n
CallIds == {CallId(s, n) : s \in SubIds, n \in 1 .. MaxCalls}

----------------------------------------------------------------------------
\* Items of conversation_history
Item(k, n) == [kind |-> k, id |-> n]
\* the user-visible seed that a compaction preserves
SeedItem == Item("seed", 0)
\* a tool call and its result, appended when the call has been dispatched
CallItem(c) == Item("call", c)
\* the summary item that the Compact task of sub_id s produced
SummaryItem(s) == Item("summary", s)

\* Faulty variant: resolve() forwards the decision and never remembers it
KeepSessionApprovals(set, d, f) == set

\* resolve(): ApprovedForSession inserts the call's fingerprint
insert_session_approval(set, d, f) ==
    IF d = "ApprovedForSession" THEN set \cup {f} ELSE set

----------------------------------------------------------------------------
\* The active_turn slot (state::ActiveTurn: a map of running tasks by sub_id)

NoTurn == [some |-> FALSE, tasks |-> {}]

\* ActiveTurn::default() followed by add_task(sub_id, task)
add_task(turn, s) == [some |-> TRUE, tasks |-> turn.tasks \cup {s}]

\* remove_task(sub_id): drops the entry, answers whether no task is left
remove_task(turn, s) == [turn |-> [turn EXCEPT !.tasks = @ \ {s}],
                         empty |-> turn.tasks \ {s} = {}]

\* drain_tasks(): the tasks of the turn, in a sequence
RECURSIVE SeqOfSet(_)
SeqOfSet(S) == IF S = {} THEN <<>>
               ELSE LET x == CHOOSE y \in S : \A z \in S : y <= z
                    IN <<x>> \o SeqOfSet(S \ {x})
drain_tasks(turn) == SeqOfSet(turn.tasks)

\* AbortHandle::is_finished(): the future ran to its end or was dropped
is_finished(f) == f.pc \in {"finished", "cancelled"}

IsLive(f) == f.pc \notin {"unspawned", "finished", "cancelled"}

NewFuture == [kind |-> "Regular", pc |-> "unspawned", cancel |-> FALSE, late |-> 0,
              calls |-> 0, tool |-> "-", fp |-> "-", ret |-> "none"]

----------------------------------------------------------------------------
\* Statement order of the two procedures of tasks/mod.rs

\* Faulty variant: the run future is spawned before the previous task is aborted
SpawnTaskOrderSpawnFirst == <<"spawn", "abort_all", "register">>

\* spawn_task: abort_all_tasks(Replaced); tokio::spawn(..); register_new_active_task
SpawnTaskOrder == <<"abort_all", "spawn", "register">>

\* Faulty variant: TurnAborted is sent before the abort hook is awaited
HandleTaskAbortOrderEmitFirst == <<"signal", "emit", "hook">>

\* handle_task_abort past the is_finished check: handle.abort();
\* session_task.abort(..).await; send_event(TurnAborted)
HandleTaskAbortOrder == <<"signal", "hook", "emit">>

IndexOf(seq, x) == CHOOSE i \in 1 .. Len(seq) : seq[i] = x
After(seq, x, end) == IF IndexOf(seq, x) < Len(seq) THEN seq[IndexOf(seq, x) + 1] ELSE end

\* where the caller goes once abort_all_tasks has returned
AfterAbortAll(c) == IF c.op = "spawn" THEN After(SpawnTaskOrder, "abort_all", "idle") ELSE "idle"

\* abort_all_tasks' loop: the next task taken, or the end of the loop
AfterTask(c, rest) == IF rest = <<>> THEN AfterAbortAll(c) ELSE "check"

\* Faulty variant: ReviewTask without its own abort(), the default hook for every kind
AbortHookDefault(kind, s) == <<>>

\* the abort() hook of a task: ReviewTask exits review mode, the default does nothing
AbortHookEvents(kind, s) == IF kind = "Review" THEN <<ExitedReviewMode(s)>> ELSE <<>>

\* Faulty variant: handle_task_abort without the is_finished check
AbortNeverSkips(f) == FALSE

\* handle_task_abort returns at once for a finished future
AbortSkips(f) == is_finished(f)

IdleCaller == [op |-> "none", pc |-> "idle", sub |-> NoSub, kind |-> "Regular",
               reason |-> "Replaced", taken |-> <<>>, occupant |-> NoSub, took |-> {}]

----------------------------------------------------------------------------
SchedInit ==
    /\ active_turn = NoTurn
    /\ futures = [s \in SubIds |-> NewFuture]
    /\ events = <<>>
    /\ caller = IdleCaller
    /\ pending_approvals = {}
    /\ approval_reply = [c \in CallIds |-> "none"]
    /\ next_sub = 1
    /\ aborts_done = 0
    /\ abort_saw = [s \in SubIds |-> "-"]
    /\ session_approvals = {}
    /\ conversation_history = <<SeedItem>>

\* the scheduler alone: no call of a library function alongside it
Init == SchedInit /\ libcall = NoCall

----------------------------------------------------------------------------
\* The submission loop

\* the unfinished task that occupies the slot when an operation starts
Occupant == IF \E s \in active_turn.tasks : ~is_finished(futures[s])
            THEN CHOOSE s \in active_turn.tasks : ~is_finished(futures[s])
            ELSE NoSub

\* Op::UserTurn / UserInput / Compact / Review: spawn_task(ctx, sub_id, input, task)
SpawnTaskCall(kind) ==
    /\ caller.pc = "idle"
    /\ next_sub <= MaxSubs
    /\ caller' = [op |-> "spawn", pc |-> SpawnTaskOrder[1], sub |-> next_sub,
                  kind |-> kind, reason |-> "Replaced", taken |-> <<>>,
                  occupant |-> Occupant, took |-> {}]
    /\ next_sub' = next_sub + 1
    /\ UNCHANGED <<active_turn, futures, events, pending_approvals,
                   approval_reply, aborts_done, abort_saw,
                   session_approvals, conversation_history, libvars>>

\* Op::Interrupt: abort_all_tasks(UserInterrupt).  (Shutdown takes the same path
\* with its own reason.)
AbortAllTasksCall(reason) ==
    /\ caller.pc = "idle"
    /\ aborts_done < MaxAborts
    /\ caller' = [op |-> "abort", pc |-> "abort_all", sub |-> NoSub,
                  kind |-> "Regular", reason |-> reason, taken |-> <<>>,
                  occupant |-> Occupant, took |-> {}]
    /\ aborts_done' = aborts_done + 1
    /\ UNCHANGED <<active_turn, futures, events, pending_approvals,
                   approval_reply, next_sub, abort_saw,
                   session_approvals, conversation_history, libvars>>

\* clear_pending(): every outstanding sink is fulfilled with Abort
clear_pending ==
    /\ approval_reply' = [c \in CallIds |->
                            IF c \in pending_approvals THEN "Abort" ELSE approval_reply[c]]
    /\ pending_approvals' = {}

\* Faulty variant: take_all_running_tasks without at.clear_pending()
TakeAllRunningTasksNoClear ==
    /\ caller.pc = "abort_all"
    /\ IF active_turn.some
       THEN caller' = [caller EXCEPT !.taken = drain_tasks(active_turn),
                                     !.took = active_turn.tasks,
                                     !.pc = AfterTask(caller, drain_tasks(active_turn))]
       ELSE caller' = [caller EXCEPT !.taken = <<>>, !.pc = AfterAbortAll(caller)]
    /\ active_turn' = NoTurn
    /\ UNCHANGED <<futures, events, pending_approvals, approval_reply,
                   next_sub, aborts_done, abort_saw,
                   session_approvals, conversation_history, libvars>>

\* take_all_running_tasks: under the lock, take the turn out of the slot,
\* clear its pending approvals and drain its tasks
TakeAllRunningTasks ==
    /\ caller.pc = "abort_all"
    /\ IF active_turn.some
       THEN /\ clear_pending
            /\ caller' = [caller EXCEPT !.taken = drain_tasks(active_turn),
                                        !.took = active_turn.tasks,
                                        !.pc = AfterTask(caller, drain_tasks(active_turn))]
       ELSE /\ caller' = [caller EXCEPT !.taken = <<>>, !.pc = AfterAbortAll(caller)]
            /\ UNCHANGED <<pending_approvals, approval_reply>>
    /\ active_turn' = NoTurn
    /\ UNCHANGED <<futures, events, next_sub, aborts_done, abort_saw,
                   session_approvals, conversation_history, libvars>>

\* handle_task_abort: if task.handle.is_finished() { return; }
HandleTaskAbortCheck ==
    /\ caller.pc = "check"
    /\ LET s == Head(caller.taken) IN
        /\ abort_saw' = [abort_saw EXCEPT ![s] =
                            IF is_finished(futures[s]) THEN "finished" ELSE "unfinished"]
        /\ IF AbortSkips(futures[s])
           THEN caller' = [caller EXCEPT !.taken = Tail(@),
                                         !.pc = AfterTask(caller, Tail(caller.taken))]
           ELSE caller' = [caller EXCEPT !.pc = HandleTaskAbortOrder[1]]
    /\ UNCHANGED <<active_turn, futures, events, pending_approvals,
                   approval_reply, next_sub, aborts_done,
                   session_approvals, conversation_history, libvars>>

\* where handle_task_abort goes after one of its three statements
AfterAbortStep(step) ==
    IF IndexOf(HandleTaskAbortOrder, step) < Len(HandleTaskAbortOrder)
    THEN [caller EXCEPT !.pc = After(HandleTaskAbortOrder, step, "idle")]
    ELSE [caller EXCEPT !.taken = Tail(@), !.pc = AfterTask(caller, Tail(caller.taken))]

\* handle.abort(): asks the runtime to cancel the future (cancel records the
\* request; it has no effect on a future that is finished by then)
HandleTaskAbortSignal ==
    /\ caller.pc = "signal"
    /\ LET s == Head(caller.taken) IN
        futures' = [futures EXCEPT ![s].cancel = TRUE]
    /\ caller' = AfterAbortStep("signal")
    /\ UNCHANGED <<active_turn, events, pending_approvals, approval_reply,
                   next_sub, aborts_done, abort_saw,
                   session_approvals, conversation_history, libvars>>

\* session_task.abort(session_ctx, &sub_id).await
HandleTaskAbortHook ==
    /\ caller.pc = "hook"
    /\ LET s == Head(caller.taken) IN
        events' = events \o AbortHookEvents(futures[s].kind, s)
    /\ caller' = AfterAbortStep("hook")
    /\ UNCHANGED <<active_turn, futures, pending_approvals, approval_reply,
                   next_sub, aborts_done, abort_saw,
                   session_approvals, conversation_history, libvars>>

\* send_event(TurnAborted{reason}) tagged with the aborted sub_id
HandleTaskAbortEmit ==
    /\ caller.pc = "emit"
    /\ LET s == Head(caller.taken) IN
        events' = Append(events, TurnAborted(s, caller.reason))
    /\ caller' = AfterAbortStep("emit")
    /\ UNCHANGED <<active_turn, futures, pending_approvals, approval_reply,
                   next_sub, aborts_done, abort_saw,
                   session_approvals, conversation_history, libvars>>

\* tokio::spawn(async move { run(..).await; on_task_finished(..).await }).abort_handle()
TokioSpawn ==
    /\ caller.pc = "spawn"
    /\ futures' = [futures EXCEPT ![caller.sub] =
                        [NewFuture EXCEPT !.kind = caller.kind, !.pc = "start"]]
    /\ caller' = [caller EXCEPT !.pc = After(SpawnTaskOrder, "spawn", "idle")]
    /\ UNCHANGED <<active_turn, events, pending_approvals, approval_reply,
                   next_sub, aborts_done, abort_saw,
                   session_approvals, conversation_history, libvars>>

\* register_new_active_task: *active = Some(ActiveTurn::default() with the task added)
RegisterNewActiveTask ==
    /\ caller.pc = "register"
    /\ active_turn' = add_task(NoTurn, caller.sub)
    /\ caller' = [caller EXCEPT !.pc = After(SpawnTaskOrder, "register", "idle")]
    /\ UNCHANGED <<futures, events, pending_approvals, approval_reply,
                   next_sub, aborts_done, abort_saw,
                   session_approvals, conversation_history, libvars>>

----------------------------------------------------------------------------
\* The tokio runtime.  handle.abort() only requests cancellation: a future that
\* is suspended is dropped without running again, one that a worker is polling
\* at that moment goes on until its next suspension point and is dropped there.
\* So a future whose cancellation was requested may still take steps, and may
\* be dropped before any of them.

Drop(s) ==
    /\ IsLive(futures[s])
    /\ futures[s].cancel
    /\ futures' = [futures EXCEPT ![s].pc = "cancelled"]
    /\ UNCHANGED <<active_turn, events, caller, pending_approvals,
                   approval_reply, next_sub, aborts_done, abort_saw,
                   session_approvals, conversation_history, libvars>>

\* a future takes a step when it is where the step starts and a worker polls it
Running(s, pc) ==
    /\ futures[s].pc = pc
    /\ futures[s].cancel => futures[s].late < MaxLateSteps

\* one more step of a future; late counts the steps taken after handle.abort()
Stepped(f) == [f EXCEPT !.late = IF f.cancel THEN @ + 1 ELSE @]

----------------------------------------------------------------------------
\* The run future of one task: task.run(..) (the turn engine), then on_task_finished

\* the turn engine emits TaskStarted first
RunTaskStarted(s) ==
    /\ Running(s, "start")
    /\ events' = Append(events, TaskStarted(s))
    /\ futures' = [futures EXCEPT ![s] = Stepped([@ EXCEPT !.pc = "turn"])]
    /\ UNCHANGED <<active_turn, caller, pending_approvals, approval_reply,
                   next_sub, aborts_done, abort_saw,
                   session_approvals, conversation_history, libvars>>

CanDispatch(s) ==
    /\ Running(s, "turn")
    /\ futures[s].kind # "Compact"
    /\ futures[s].calls < MaxCalls

\* Approval Mediator request(call_id, ..): emit the request, install the sink, wait
RequestApproval(s, t, f) ==
    /\ CanDispatch(s)
    /\ t \in ApprovalTools
    /\ f \notin session_approvals
    /\ LET c == CallId(s, futures[s].calls + 1) IN
        /\ events' = Append(events, ApprovalRequest(s, t, c, f))
        /\ pending_approvals' = pending_approvals \cup {c}
    /\ futures' = [futures EXCEPT ![s] = Stepped([@ EXCEPT !.pc = "await_approval", !.tool = t,
                                                    !.fp = f])]
    /\ UNCHANGED <<active_turn, caller, approval_reply, next_sub, aborts_done, abort_saw,
                   session_approvals, conversation_history, libvars>>

\* a shell call whose fingerprint is in session_approvals goes ahead unprompted
DispatchApproved(s, t, f) ==
    /\ CanDispatch(s)
    /\ t \in ApprovalTools
    /\ f \in session_approvals
    /\ events' = Append(events, ToolBegin(s, t, CallId(s, futures[s].calls + 1)))
    /\ futures' = [futures EXCEPT ![s] = Stepped([@ EXCEPT !.pc = "exec", !.tool = t, !.fp = f])]
    /\ UNCHANGED <<active_turn, caller, pending_approvals, approval_reply,
                   next_sub, aborts_done, abort_saw,
                   session_approvals, conversation_history, libvars>>

\* the decision arrives: Denied / Abort skip the execution, otherwise the tool begins
ReceiveDecision(s) ==
    /\ Running(s, "await_approval")
    /\ LET c == CallId(s, futures[s].calls + 1) IN
        /\ approval_reply[c] # "none"
        /\ IF approval_reply[c] \in {"Approved", "ApprovedForSession"}
           THEN /\ events' = Append(events, ToolBegin(s, futures[s].tool, c))
                /\ futures' = [futures EXCEPT ![s] = Stepped([@ EXCEPT !.pc = "exec"])]
                /\ UNCHANGED conversation_history
           ELSE /\ events' = events
                /\ futures' = [futures EXCEPT ![s] = Stepped([@ EXCEPT !.pc = "turn", !.tool = "-",
                                                  !.fp = "-", !.calls = @ + 1])]
                /\ conversation_history' = Append(conversation_history, CallItem(c))
    /\ UNCHANGED <<active_turn, caller, pending_approvals, approval_reply,
                   next_sub, aborts_done, abort_saw, session_approvals, libvars>>

\* a tool call that needs no approval: *Begin is emitted before the tool starts
DispatchBegin(s, t) ==
    /\ CanDispatch(s)
    /\ t \notin ApprovalTools
    /\ events' = Append(events, ToolBegin(s, t, CallId(s, futures[s].calls + 1)))
    /\ futures' = [futures EXCEPT ![s] = Stepped([@ EXCEPT !.pc = "exec", !.tool = t])]
    /\ UNCHANGED <<active_turn, caller, pending_approvals, approval_reply,
                   next_sub, aborts_done, abort_saw,
                   session_approvals, conversation_history, libvars>>

\* the tool finished: *End with the same call id
DispatchEnd(s) ==
    /\ Running(s, "exec")
    /\ events' = Append(events, ToolEnd(s, futures[s].tool, CallId(s, futures[s].calls + 1)))
    /\ futures' = [futures EXCEPT ![s] = Stepped([@ EXCEPT !.pc = "turn", !.tool = "-",
                                                    !.fp = "-", !.calls = @ + 1])]
    /\ conversation_history' =
          Append(conversation_history, CallItem(CallId(s, futures[s].calls + 1)))
    /\ UNCHANGED <<active_turn, caller, pending_approvals, approval_reply,
                   next_sub, aborts_done, abort_saw, session_approvals, libvars>>

\* the Compact task's summarization succeeded: conversation_history is replaced
\* by the seed and the summary item, and run returns None
CompactReplace(s) ==
    /\ Running(s, "turn")
    /\ futures[s].kind = "Compact"
    /\ conversation_history' = <<SeedItem, SummaryItem(s)>>
    /\ futures' = [futures EXCEPT ![s] = Stepped([@ EXCEPT !.pc = "returned", !.ret = "none"])]
    /\ UNCHANGED <<active_turn, events, caller, pending_approvals, approval_reply,
                   next_sub, aborts_done, abort_saw, session_approvals, libvars>>

\* let last_agent_message = task_for_run.run(..).await  (for a Compact task:
\* the summarization failed and run returns None)
RunReturns(s, v) ==
    /\ Running(s, "turn")
    /\ futures[s].kind = "Compact" => v = "none"
    /\ futures' = [futures EXCEPT ![s] = Stepped([@ EXCEPT !.pc = "returned", !.ret = v])]
    /\ UNCHANGED <<active_turn, events, caller, pending_approvals, approval_reply,
                   next_sub, aborts_done, abort_saw,
                   session_approvals, conversation_history, libvars>>

\* on_task_finished, under the lock: remove the task; an empty turn leaves the slot
OnTaskFinishedRemove(s) ==
    /\ Running(s, "returned")
    /\ active_turn' = IF active_turn.some /\ remove_task(active_turn, s).empty
                      THEN NoTurn
                      ELSE IF active_turn.some THEN remove_task(active_turn, s).turn
                      ELSE active_turn
    /\ futures' = [futures EXCEPT ![s] = Stepped([@ EXCEPT !.pc = "send_complete"])]
    /\ UNCHANGED <<events, caller, pending_approvals, approval_reply,
                   next_sub, aborts_done, abort_saw,
                   session_approvals, conversation_history, libvars>>

\* on_task_finished, the lock dropped: send_event(TaskComplete{last_agent_message})
OnTaskFinishedSend(s) ==
    /\ Running(s, "send_complete")
    /\ events' = Append(events, TaskComplete(s, futures[s].ret))
    /\ futures' = [futures EXCEPT ![s] = Stepped([@ EXCEPT !.pc = "sent"])]
    /\ UNCHANGED <<active_turn, caller, pending_approvals, approval_reply,
                   next_sub, aborts_done, abort_saw,
                   session_approvals, conversation_history, libvars>>

\* the async block ends: from now on handle.is_finished() is true
FutureCompletes(s) ==
    /\ Running(s, "sent")
    /\ futures' = [futures EXCEPT ![s] = Stepped([@ EXCEPT !.pc = "finished"])]
    /\ UNCHANGED <<active_turn, events, caller, pending_approvals, approval_reply,
                   next_sub, aborts_done, abort_saw,
                   session_approvals, conversation_history, libvars>>

----------------------------------------------------------------------------
\* Op::ExecApproval / Op::PatchApproval: resolve(call_id, decision) pops the sink
\* and forwards the decision
ResolveApproval(c, d) ==
    /\ caller.pc = "idle"
    /\ c \in pending_approvals
    /\ pending_approvals' = pending_approvals \ {c}
    /\ approval_reply' = [approval_reply EXCEPT ![c] = d]
    /\ session_approvals' = insert_session_approval(session_approvals, d, futures[c \div 10].fp)
    /\ UNCHANGED <<active_turn, futures, events, caller, next_sub, aborts_done, abort_saw,
                   conversation_history, libvars>>

----------------------------------------------------------------------------
Next ==
    \/ \E k \in TaskKinds : SpawnTaskCall(k)
    \/ AbortAllTasksCall("UserInterrupt")
    \/ TakeAllRunningTasks
    \/ HandleTaskAbortCheck
    \/ HandleTaskAbortSignal
    \/ HandleTaskAbortHook
    \/ HandleTaskAbortEmit
    \/ TokioSpawn
    \/ RegisterNewActiveTask
    \/ \E c \in CallIds, d \in UserDecisions : ResolveApproval(c, d)
    \/ \E s \in SubIds : Drop(s)
    \/ \E s \in SubIds : RunTaskStarted(s)
    \/ \E s \in SubIds, t \in ToolKinds, f \in Fingerprints : RequestApproval(s, t, f)
    \/ \E s \in SubIds, t \in ToolKinds, f \in Fingerprints : DispatchApproved(s, t, f)
    \/ \E s \in SubIds : ReceiveDecision(s)
    \/ \E s \in SubIds, t \in ToolKinds : DispatchBegin(s, t)
    \/ \E s \in SubIds : DispatchEnd(s)
    \/ \E s \in SubIds : CompactReplace(s)
    \/ \E s \in SubIds, v \in LastMessages : RunReturns(s, v)
    \/ \E s \in SubIds : OnTaskFinishedRemove(s)
    \/ \E s \in SubIds : OnTaskFinishedSend(s)
    \/ \E s \in SubIds : FutureCompletes(s)

Spec == Init /\ [][Next]_vars

----------------------------------------------------------------------------
\* Reading the event bus

EventIdx == DOMAIN events
HasEvent(e) == \E i \in EventIdx : events[i] = e
EventsOf(s) == {i \in EventIdx : events[i].id = s}
TerminalsOf(s) == {i \in EventsOf(s) : IsTerminal(events[i])}
AbortedIdx(s) == {i \in EventsOf(s) : events[i].msg = "TurnAborted"}
CompleteIdx(s) == {i \in EventsOf(s) : events[i].msg = "TaskComplete"}
\* sub_ids with a TaskStarted and no TaskComplete / TurnAborted yet
Outstanding == {s \in SubIds : HasEvent(TaskStarted(s)) /\ TerminalsOf(s) = {}}

----------------------------------------------------------------------------
\* C1 (single active task): the active_turn slot holds at most one RunningTask
\* and at most one sub_id has emitted TaskStarted without a TaskComplete or
\* TurnAborted yet.
C1_SingleActiveTask ==
    /\ Cardinality(active_turn.tasks) <= 1
    /\ Cardinality(Outstanding) <= 1

\* the new task of the spawn_task call is in the slot or has emitted an event
NewTaskVisible == caller.sub \in active_turn.tasks \/ EventsOf(caller.sub) # {}

\* TurnAborted{Replaced} of a precedes every event of the call's new sub_id
ReplacedFirst(a) ==
    \E i \in EventIdx :
        /\ events[i] = TurnAborted(a, "Replaced")
        /\ \A j \in EventsOf(caller.sub) : i < j

\* C2 as stated (replacement ordering): when spawn_task is called while an
\* unfinished task A occupies the slot, TurnAborted{Replaced} tagged A is emitted
\* before the new task is stored in the slot and before any event of the new sub_id.
C2_ReplacedBeforeNewTask ==
    (caller.op = "spawn" /\ caller.occupant # NoSub /\ NewTaskVisible)
        => ReplacedFirst(caller.occupant)

\* C2 amended: the same ordering for every task that spawn_task takes from the
\* slot and that handle_task_abort finds unfinished (is_finished() false); a task
\* that finishes between the call and that check gets no TurnAborted.
C2_ReplacedBeforeNewTaskIfUnfinishedAtCheck ==
    \A a \in SubIds :
        (caller.op = "spawn" /\ a \in caller.took /\ abort_saw[a] = "unfinished"
            /\ NewTaskVisible)
        => ReplacedFirst(a)

C2_Witness ==
    /\ caller.op = "spawn"
    /\ caller.occupant # NoSub
    /\ abort_saw[caller.occupant] = "unfinished"
    /\ caller.sub \in active_turn.tasks
    /\ HasEvent(TaskStarted(caller.sub))
    /\ ReplacedFirst(caller.occupant)

\* C3 (terminal events are final): no event tagged with a sub_id is emitted after
\* that sub_id's TaskComplete or TurnAborted.
C3_TerminalIsFinal ==
    \A i, j \in EventIdx :
        (i < j /\ IsTerminal(events[i])) => events[j].id # events[i].id

\* the Begin events of sub_id s that no later End with the same call id matches
UnmatchedBegins(s) ==
    {b \in EventsOf(s) :
        /\ events[b].msg = "Begin"
        /\ ~\E e \in EventsOf(s) :
              e > b /\ events[e] = ToolEnd(s, events[b].tool, events[b].call)}

\* C4 (Begin/End pairing): in a turn that ends with TaskComplete every *Begin is
\* followed by exactly one *End with the same call_id before TaskComplete; in an
\* aborted turn every Begin left unmatched is followed by TurnAborted.
C4_BeginEndPairing ==
    \A s \in SubIds :
        /\ \A k \in CompleteIdx(s) : \A b \in EventsOf(s) :
              (b < k /\ events[b].msg = "Begin") =>
                  Cardinality({e \in EventsOf(s) :
                      b < e /\ e < k
                      /\ events[e] = ToolEnd(s, events[b].tool, events[b].call)}) = 1
        /\ (is_finished(futures[s]) /\ AbortedIdx(s) # {}) =>
              \A b \in UnmatchedBegins(s) : \E a \in AbortedIdx(s) : b < a

\* the call ids whose approval request is on the bus
Requested == {events[i].call : i \in {j \in EventIdx : events[j].msg = "ApprovalRequest"}}

\* the step of take_all_running_tasks on an occupied slot
TakesTurn == caller.pc = "abort_all" /\ caller'.pc # "abort_all" /\ active_turn.some

NotYetRegistered(s) == caller.op = "spawn" /\ caller.sub = s /\ caller.pc # "idle"

\* C6 (store before spawn): the new RunningTask is stored in the active_turn slot
\* before its run future is spawned, so no step of the run future runs while the
\* task is not registered.
C6_StoreBeforeSpawn ==
    \A s \in SubIds : NotYetRegistered(s) => futures[s].pc = "unspawned"

\* C7 (completion clears the slot): TaskComplete carries the value run returned,
\* and once TaskComplete of a sub_id is on the bus the slot does not hold that
\* sub_id's task.
C7_CompletionClearsSlot ==
    \A s \in SubIds : \A k \in CompleteIdx(s) :
        /\ events[k] = TaskComplete(s, futures[s].ret)
        /\ s \notin active_turn.tasks

\* C8 (abort of a finished task is a no-op): a task whose future handle_task_abort
\* found finished gets no cancellation request, no abort hook and no TurnAborted;
\* its only terminal event is its one TaskComplete.
C8_FinishedAbortIsNoOp ==
    \A s \in SubIds :
        abort_saw[s] = "finished" =>
            /\ ~futures[s].cancel
            /\ AbortedIdx(s) = {}
            /\ ~HasEvent(ExitedReviewMode(s))
            /\ Cardinality(TerminalsOf(s)) = 1
            /\ TerminalsOf(s) = CompleteIdx(s)

\* abort_all_tasks returned after it took a finished task out of the slot
C8_Witness ==
    \E s \in SubIds :
        /\ abort_saw[s] = "finished"
        /\ s \in caller.took
        /\ caller.pc = "idle"

\* the task whose abort protocol the caller is running
Aborting(s, pc) == caller.pc = pc /\ caller.taken # <<>> /\ Head(caller.taken) = s

\* C9 (abort ordering): cancellation is requested before the abort hook runs, the
\* hook has run to its end before TurnAborted is sent, and every event of the
\* hook precedes TurnAborted.
C9_AbortOrdering ==
    \A s \in SubIds :
        /\ (Aborting(s, "hook") \/ Aborting(s, "emit") \/ AbortedIdx(s) # {})
              => futures[s].cancel
        /\ (Aborting(s, "signal") \/ Aborting(s, "hook")) => AbortedIdx(s) = {}
        /\ \A h \in EventsOf(s) : \A a \in AbortedIdx(s) :
              events[h] = ExitedReviewMode(s) => h < a
        /\ ((Aborting(s, "emit") \/ AbortedIdx(s) # {}) /\ futures[s].kind = "Review")
              => HasEvent(ExitedReviewMode(s))

\* a Review task aborted: cancellation requested, hook event, then TurnAborted
C9_Witness ==
    \E s \in SubIds : \E h, a \in EventsOf(s) :
        /\ futures[s].cancel
        /\ events[h] = ExitedReviewMode(s)
        /\ events[a].msg = "TurnAborted"
        /\ h < a

\* C10 (review abort): the abort of an unfinished Review task emits the closing
\* 'review exited' event of that sub_id before TurnAborted; the abort of a Regular
\* or Compact task emits nothing but TurnAborted.
C10_ReviewAbort ==
    \A s \in SubIds :
        /\ futures[s].kind = "Review" =>
              \A a \in AbortedIdx(s) : \E h \in EventsOf(s) :
                  h < a /\ events[h] = ExitedReviewMode(s)
        /\ futures[s].kind # "Review" => ~HasEvent(ExitedReviewMode(s))
        /\ Cardinality({h \in EventsOf(s) : events[h] = ExitedReviewMode(s)})
              <= Cardinality(AbortedIdx(s)) + (IF Aborting(s, "emit") THEN 1 ELSE 0)

\* a Regular task and a Review task both aborted
C10_Witness ==
    \E r, v \in SubIds :
        /\ futures[r].kind = "Regular" /\ AbortedIdx(r) # {}
        /\ futures[v].kind = "Review" /\ AbortedIdx(v) # {}
        /\ HasEvent(ExitedReviewMode(v))

----------------------------------------------------------------------------
\* the caller is past take_all_running_tasks and abort_all_tasks has not yet
\* returned, or has just returned
SlotJustTaken ==
    \/ caller.pc \in {"check", "signal", "hook", "emit"}
    \/ caller.op = "spawn" /\ caller.pc = After(SpawnTaskOrder, "abort_all", "idle")
    \/ caller.op = "abort" /\ caller.pc = "idle"

\* abort_all_tasks of the caller's operation has returned
AbortAllReturned ==
    /\ caller.op # "none"
    /\ caller.pc \notin {"abort_all", "check", "signal", "hook", "emit"}

\* the reason the caller's operation hands to abort_all_tasks
ReasonOf(op) == IF op = "spawn" THEN "Replaced" ELSE "UserInterrupt"

\* C11 (abort reason and tag): abort_all_tasks(reason) leaves the active_turn slot
\* empty, and when it has returned every task it took from the slot and found
\* unfinished has exactly one TurnAborted, tagged with that task's sub_id and
\* carrying the reason of the operation (Replaced for spawn_task, UserInterrupt
\* for Interrupt); no sub_id ever has more than one TurnAborted.
C11_AbortReasonAndTag ==
    /\ SlotJustTaken => active_turn = NoTurn
    /\ \A s \in SubIds : Cardinality(AbortedIdx(s)) <= 1
    /\ AbortAllReturned =>
          \A s \in caller.took :
              abort_saw[s] = "unfinished" =>
                  /\ Cardinality(AbortedIdx(s)) = 1
                  /\ \A i \in AbortedIdx(s) : events[i].arg = ReasonOf(caller.op)

\* an Interrupt that found an unfinished task has returned
C11_Witness ==
    /\ caller.op = "abort"
    /\ caller.pc = "idle"
    /\ \E s \in caller.took :
          /\ abort_saw[s] = "unfinished"
          /\ events[Len(events)].id = s
          /\ events[Len(events)].arg = "UserInterrupt"

----------------------------------------------------------------------------
\* the fingerprints of the calls answered with ApprovedForSession
ApprovedForSession ==
    {events[i].arg : i \in {j \in EventIdx :
        /\ events[j].msg = "ApprovalRequest"
        /\ approval_reply[events[j].call] = "ApprovedForSession"}}

\* future s starts a shell call in this step
StartsShellCall(s) ==
    /\ futures[s].pc = "turn"
    /\ futures'[s].pc \in {"await_approval", "exec"}
    /\ futures'[s].tool \in ApprovalTools

\* C12 (session-approval monotonicity): a fingerprint approved with
\* ApprovedForSession is in session_approvals; no entry of session_approvals is
\* ever removed; and a shell call whose fingerprint is in session_approvals emits
\* no approval request and installs no sink: it goes straight to its Begin event.
C12_SessionApprovalMonotonic ==
    /\ [](ApprovedForSession \subseteq session_approvals)
    /\ [][session_approvals \subseteq session_approvals']_vars
    /\ [][\A s \in SubIds :
            (StartsShellCall(s) /\ futures'[s].fp \in session_approvals) =>
                /\ futures'[s].pc = "exec"
                /\ pending_approvals' = pending_approvals
                /\ events' = Append(events, ToolBegin(s, futures'[s].tool,
                                                     CallId(s, futures[s].calls + 1)))]_vars

\* the second submission runs a shell call with the fingerprint that the first
\* one had approved for the session, and no request was emitted for it
C12_Witness ==
    \E f \in Fingerprints :
        /\ HasEvent(ApprovalRequest(1, "ExecCommand", CallId(1, 1), f))
        /\ approval_reply[CallId(1, 1)] = "ApprovedForSession"
        /\ futures[2].pc = "exec"
        /\ futures[2].fp = f
        /\ f \in session_approvals
        /\ ~\E i \in EventsOf(2) : events[i].msg = "ApprovalRequest"

\* C13 (compaction atomicity): a Compact task that was aborted has left
\* conversation_history as it was: its summary has not replaced the history.
C13_CompactionAtomicity ==
    \A s \in SubIds :
        (futures[s].kind = "Compact" /\ AbortedIdx(s) # {}) =>
            \A i \in DOMAIN conversation_history :
                conversation_history[i] # SummaryItem(s)

----------------------------------------------------------------------------
\* rmcp-client/src/utils.rs: convert_call_tool_result
\*
\* JSON values (serde_json::Value).  An object is a function from the keys it
\* holds to their values.

JNull == [t |-> "null"]
JBool(b) == [t |-> "bool", b |-> b]
JArray(items) == [t |-> "array", items |-> items]
JObject(fields) == [t |-> "object", fields |-> fields]
is_null(v) == v.t = "null"

None == [some |-> FALSE]
Some(v) == [some |-> TRUE, v |-> v]

\* Map::get
get(obj, key) == IF key \in DOMAIN obj THEN Some(obj[key]) ELSE None
\* Map::insert
insert(obj, key, v) == [k \in DOMAIN obj \cup {key} |-> IF k = key THEN v ELSE obj[k]]

Ok(v) == [ok |-> TRUE, v |-> v]
Err(msg) == [ok |-> FALSE, msg |-> msg]

\* the content blocks a server sends (both crates follow the MCP schema)
TextContent == JObject([type |-> "text", text |-> "hello"])
ImageContent == JObject([type |-> "image", data |-> "aGk=", mimeType |-> "image/png"])
ContentLists == {<<>>, <<TextContent>>, <<TextContent, ImageContent>>, <<ImageContent, TextContent>>}

ResultKeys == {"content", "structuredContent", "isError", "_meta"}

\* what each key of a serialized tool result can hold
ResultValues(key) ==
    CASE key = "content" -> {JNull} \cup {JArray(c) : c \in ContentLists}
      [] key = "structuredContent" -> {JNull, JObject([key |-> "value"])}
      [] key = "isError" -> {JNull, JBool(TRUE), JBool(FALSE)}
      [] key = "_meta" -> {JObject([progressToken |-> "p"])}

\* serde_json::to_value(result): the objects a tool result serializes to, with
\* every subset of the keys present
SerializedResults ==
    UNION {{o \in [D -> UNION {ResultValues(k) : k \in D}] :
                \A k \in D : o[k] \in ResultValues(k)} : D \in SUBSET ResultKeys}

\* Option<T> field of the target struct: a missing key and null give None
OptionField(obj, key) ==
    IF key \in DOMAIN obj /\ ~is_null(obj[key]) THEN Some(obj[key]) ELSE None

\* serde_json::from_value::<CallToolResult>(value): content is a required list
from_value(obj) ==
    IF "content" \in DOMAIN obj /\ obj["content"].t = "array"
    THEN Ok([content |-> obj["content"].items,
             structured_content |-> OptionField(obj, "structuredContent"),
             is_error |-> OptionField(obj, "isError")])
    ELSE Err("failed to convert call tool result")

\* Faulty variant: the value is handed to from_value as it was serialized
DefaultNothing(obj) == obj

\* if content is missing or null, insert "content": []
default_content(obj) ==
    IF get(obj, "content") = None
       \/ (get(obj, "content").some /\ is_null(get(obj, "content").v))
    THEN insert(obj, "content", JArray(<<>>))
    ELSE obj

convert_call_tool_result(value) == from_value(default_content(value))

ConvertCallToolResult ==
    /\ libcall.op = "convert"
    /\ libcall.result = None
    /\ libcall' = [libcall EXCEPT !.result = Some(convert_call_tool_result(libcall.value))]
    /\ UNCHANGED schedvars

\* C14 (MCP content normalization): convert_call_tool_result succeeds on every
\* tool result and yields a content list: the empty list when the incoming
\* content is absent or null, the incoming list otherwise; structured_content
\* and is_error are those of the incoming result.
C14_ContentNormalized ==
    (libcall.op = "convert" /\ libcall.result # None) =>
        LET v == libcall.value
            r == libcall.result.v
        IN  /\ r.ok
            /\ r.v.content = IF "content" \in DOMAIN v /\ v["content"] # JNull
                              THEN v["content"].items ELSE <<>>
            /\ r.v.structured_content = OptionField(v, "structuredContent")
            /\ r.v.is_error = OptionField(v, "isError")

\* a result without content, with structured content and isError set, converted
C14_Witness ==
    /\ libcall.op = "convert"
    /\ libcall.result # None
    /\ "content" \notin DOMAIN libcall.value
    /\ "structuredContent" \in DOMAIN libcall.value
    /\ "isError" \in DOMAIN libcall.value /\ libcall.value["isError"] = JBool(TRUE)
    /\ libcall.result.v.ok
    /\ libcall.result.v.v.content = <<>>
    /\ libcall.result.v.v.is_error = Some(JBool(TRUE))

----------------------------------------------------------------------------
\* rmcp-client/src/utils.rs: run_with_timeout
\*
\* The request future and the timer of tokio::time::timeout run against a clock
\* that counts whole ticks.  A task that was woken (the request completed, or
\* the deadline passed) is polled before the clock advances; a poll looks at
\* the request first and at the timer second.

MaxDuration == 2    \* longest timeout handed to run_with_timeout, in ticks
MaxElapsed == 3     \* ticks the clock counts

Durations == 1 .. MaxDuration
Labels == {"tools/call", "initialize"}
\* what the request future resolves to: Result<T, ServiceError>
Outcomes == {Ok(<<"value">>), Err(<<"transport", "closed">>), Err(<<"cancelled">>)}

\* anyhow!("timed out awaiting {label} after {duration:?}"), word by word
timed_out_msg(label, duration) ==
    <<"timed", "out", "awaiting", label, "after", ToString(duration)>>
\* anyhow!("{label} failed: {err}")
failed_msg(label, err) == <<label, "failed:">> \o err

\* Faulty variant: the request's error is handed on as it is
keep_err(r, label) == r

\* result.map_err(|err| anyhow!("{label} failed: {err}"))
map_err(r, label) == IF r.ok THEN r ELSE Err(failed_msg(label, r.msg))

\* the deadline of time::timeout(duration, fut) has passed
Elapsed(c) == c.timeout.some /\ c.elapsed >= c.timeout.v

\* the clock advances while run_with_timeout has nothing to poll
RwtTick ==
    /\ libcall.op = "run_with_timeout"
    /\ libcall.result = None
    /\ libcall.fut = None
    /\ ~Elapsed(libcall)
    /\ libcall.elapsed < MaxElapsed
    /\ libcall' = [libcall EXCEPT !.elapsed = @ + 1]
    /\ UNCHANGED schedvars

\* the request completes (it is dropped, and cannot, once run_with_timeout returned)
RequestCompletes(r) ==
    /\ libcall.op = "run_with_timeout"
    /\ libcall.result = None
    /\ libcall.fut = None
    /\ libcall' = [libcall EXCEPT !.fut = Some(r)]
    /\ UNCHANGED schedvars

\* run_with_timeout returns: the request's outcome, or the timeout error
RunWithTimeoutReturns ==
    /\ libcall.op = "run_with_timeout"
    /\ libcall.result = None
    /\ libcall.fut # None \/ Elapsed(libcall)
    /\ libcall' = [libcall EXCEPT !.result =
            IF libcall.fut # None
            THEN Some(map_err(libcall.fut.v, libcall.label))
            ELSE Some(Err(timed_out_msg(libcall.label, libcall.timeout.v)))]
    /\ UNCHANGED schedvars

\* msg holds the words "timed out"
MentionsTimedOut(msg) ==
    \E i \in 1 .. Len(msg) - 1 : msg[i] = "timed" /\ msg[i + 1] = "out"

\* C15 (MCP call timeout): with timeout Some(d), run_with_timeout returns an
\* error that mentions "timed out" exactly when the request has not completed
\* by d; when the request completed with an error it returns "<label> failed:
\* <error>", and the request's value otherwise; with timeout None it returns only
\* when the request has completed, however long that takes.
C15_TimeoutReported ==
    LET c == libcall IN
    (c.op = "run_with_timeout" /\ c.result # None) =>
        /\ c.fut = None =>
              /\ c.timeout # None /\ c.elapsed >= c.timeout.v
              /\ ~c.result.v.ok /\ MentionsTimedOut(c.result.v.msg)
        /\ (c.fut # None /\ c.fut.v.ok) => c.result.v = c.fut.v
        /\ (c.fut # None /\ ~c.fut.v.ok) =>
              /\ ~c.result.v.ok
              /\ c.result.v.msg = <<c.label, "failed:">> \o c.fut.v.msg
              /\ ~MentionsTimedOut(c.result.v.msg)
        /\ c.timeout = None => c.fut # None

\* the request was still pending at the deadline: the timeout error is returned
C15_Witness ==
    /\ libcall.op = "run_with_timeout"
    /\ libcall.timeout = Some(MaxDuration)
    /\ libcall.elapsed = MaxDuration
    /\ libcall.fut = None
    /\ libcall.result # None
    /\ MentionsTimedOut(libcall.result.v.msg)

----------------------------------------------------------------------------
\* core/src/config_types.rs: McpServerConfig::deserialize

\* the optional fields of RawMcpServerConfig; durations are in milliseconds,
\* a negative number of seconds cannot become a Duration
RawMcpServerConfigs ==
    [command : {None, Some("npx")},
     args : {None, Some(<<"-y", "server">>)},
     env : {None, Some([TZ |-> "UTC"])},
     url : {None, Some("https://example.com/mcp")},
     bearer_token : {None, Some("secret")},
     startup_timeout_sec : {None, Some(2), Some(-1)},
     startup_timeout_ms : {None, Some(1500)},
     tool_timeout_sec : {None, Some(5), Some(-1)}]

\* Duration::try_from_secs_f64(secs)
try_from_secs(secs) ==
    IF secs < 0 THEN Err(<<"cannot convert float seconds to Duration">>) ELSE Ok(secs * 1000)

\* option_duration_secs::deserialize: secs.map(try_from_secs_f64).transpose()
option_duration_secs(o) ==
    IF o = None THEN Ok(None)
    ELSE IF try_from_secs(o.v).ok THEN Ok(Some(try_from_secs(o.v).v)) ELSE try_from_secs(o.v)

\* a match that looks at startup_timeout_ms first
startup_timeout_ms_first(raw) ==
    IF raw.startup_timeout_ms # None THEN Ok(Some(raw.startup_timeout_ms.v))
    ELSE IF raw.startup_timeout_sec # None THEN option_duration_secs(raw.startup_timeout_sec)
    ELSE Ok(None)

\* match (raw.startup_timeout_sec, raw.startup_timeout_ms)
startup_timeout(raw) ==
    IF raw.startup_timeout_sec # None THEN option_duration_secs(raw.startup_timeout_sec)
    ELSE IF raw.startup_timeout_ms # None THEN Ok(Some(raw.startup_timeout_ms.v))
    ELSE Ok(None)

\* Faulty variant: a field of the other transport is let through
throw_never(transport, field, value) == Ok(<<>>)

\* throw_if_set(transport, field, value)
throw_if_set(transport, field, value) ==
    IF value = None THEN Ok(<<>>) ELSE Err(<<field, "is not supported for", transport>>)

\* a chain of checks ending in `?`: the first error, or the value
try_all(checks, value) ==
    IF \E i \in DOMAIN checks : ~checks[i].ok
    THEN checks[CHOOSE i \in DOMAIN checks :
                    ~checks[i].ok /\ \A j \in 1 .. i - 1 : checks[j].ok]
    ELSE Ok(value)

\* a match that forgets the env of a stdio server
transport_of_drops_env(raw) ==
    IF raw.command # None
    THEN try_all(<<throw_if_set("stdio", "url", raw.url),
                   throw_if_set("stdio", "bearer_token", raw.bearer_token)>>,
                 [type |-> "Stdio", command |-> raw.command.v,
                  args |-> IF raw.args = None THEN <<>> ELSE raw.args.v,
                  env |-> None])
    ELSE IF raw.url # None
    THEN try_all(<<throw_if_set("streamable_http", "command", raw.command),
                   throw_if_set("streamable_http", "args", raw.args),
                   throw_if_set("streamable_http", "env", raw.env)>>,
                 [type |-> "StreamableHttp", url |-> raw.url.v,
                  bearer_token |-> raw.bearer_token])
    ELSE Err(<<"invalid transport">>)

\* let transport = match raw { command: Some(..) => .., url: Some(..) => .., _ => Err }
transport_of(raw) ==
    IF raw.command # None
    THEN try_all(<<throw_if_set("stdio", "url", raw.url),
                   throw_if_set("stdio", "bearer_token", raw.bearer_token)>>,
                 [type |-> "Stdio", command |-> raw.command.v,
                  args |-> IF raw.args = None THEN <<>> ELSE raw.args.v,
                  env |-> raw.env])
    ELSE IF raw.url # None
    THEN try_all(<<throw_if_set("streamable_http", "command", raw.command),
                   throw_if_set("streamable_http", "args", raw.args),
                   throw_if_set("streamable_http", "env", raw.env)>>,
                 [type |-> "StreamableHttp", url |-> raw.url.v,
                  bearer_token |-> raw.bearer_token])
    ELSE Err(<<"invalid transport">>)

\* McpServerConfig::deserialize: the raw fields, the startup timeout, the transport
deserialize_mcp_server_config(raw) ==
    IF ~option_duration_secs(raw.tool_timeout_sec).ok
    THEN option_duration_secs(raw.tool_timeout_sec)
    ELSE IF ~startup_timeout(raw).ok THEN startup_timeout(raw)
    ELSE IF ~transport_of(raw).ok THEN transport_of(raw)
    ELSE Ok([transport |-> transport_of(raw).v,
             startup_timeout_sec |-> startup_timeout(raw).v,
             tool_timeout_sec |-> option_duration_secs(raw.tool_timeout_sec).v])

DeserializeMcpServerConfig ==
    /\ libcall.op = "deserialize"
    /\ libcall.result = None
    /\ libcall' = [libcall EXCEPT !.result = Some(deserialize_mcp_server_config(libcall.raw))]
    /\ UNCHANGED schedvars

\* the timeout fields of raw can be durations
TimeoutsValid(raw) ==
    /\ raw.startup_timeout_sec # None => raw.startup_timeout_sec.v >= 0
    /\ raw.tool_timeout_sec # None => raw.tool_timeout_sec.v >= 0

\* C16 (transport exclusivity): for every combination of presence of command,
\* args, env, url and bearer_token (the timeouts being valid), deserialization
\* succeeds exactly when command is present and url and bearer_token are absent,
\* or command is absent, url is present and args and env are absent.
C16_TransportExclusive ==
    LET raw == libcall.raw IN
    (libcall.op = "deserialize" /\ libcall.result # None /\ TimeoutsValid(raw)) =>
        (libcall.result.v.ok <=>
            \/ raw.command # None /\ raw.url = None /\ raw.bearer_token = None
            \/ raw.command = None /\ raw.url # None /\ raw.args = None /\ raw.env = None)

\* a config with both command and url was rejected
C16_Witness ==
    /\ libcall.op = "deserialize"
    /\ libcall.result # None
    /\ libcall.raw.command # None
    /\ libcall.raw.url # None
    /\ TimeoutsValid(libcall.raw)
    /\ ~libcall.result.v.ok
    /\ libcall.result.v.msg = <<"url", "is not supported for", "stdio">>

----------------------------------------------------------------------------
\* rmcp-client/src/utils.rs: create_env_for_mcp_server

\* #[cfg(unix)] DEFAULT_ENV_VARS
DEFAULT_ENV_VARS ==
    <<"HOME", "LOGNAME", "PATH", "SHELL", "USER", "__CF_USER_TEXT_ENCODING",
      "LANG", "LC_ALL", "TERM", "TMPDIR", "TZ">>

\* environments of the parent process: each variable is unset, holds text, or
\* holds bytes that are not valid Unicode
ParentEnvs ==
    UNION {[D -> {[unicode |-> TRUE, s |-> "parent"], [unicode |-> FALSE, s |-> "bytes"]}] :
            D \in SUBSET {"HOME", "TZ", "API_KEY"}}

\* the per-server env maps of the configuration
ExtraEnvs == {None} \cup {Some([k \in D |-> "custom"]) : D \in SUBSET {"TZ", "API_KEY"}}

\* env::var(var).ok(): None for a variable that is unset or not valid Unicode
env_var(parent, var) ==
    IF var \in DOMAIN parent /\ parent[var].unicode THEN Some(parent[var].s) ELSE None

\* DEFAULT_ENV_VARS.iter().filter_map(|var| env::var(var).ok().map(|value| (var, value)))
default_pairs(parent) ==
    LET D == DEFAULT_ENV_VARS
        kept == SelectSeq([i \in DOMAIN D |-> i], LAMBDA i : env_var(parent, D[i]).some)
    IN  [j \in DOMAIN kept |-> <<D[kept[j]], env_var(parent, D[kept[j]]).v>>]

\* the (key, value) pairs a HashMap iterates over, in some order
RECURSIVE into_iter(_)
into_iter(m) ==
    IF DOMAIN m = {} THEN <<>>
    ELSE LET k == CHOOSE x \in DOMAIN m : TRUE
         IN  <<<<k, m[k]>>>> \o into_iter([x \in DOMAIN m \ {k} |-> m[x]])

\* Faulty variant: the per-server pairs come first, so the parent's values win
chain_reversed(first, second) == second \o first

\* Iterator::chain
chain(first, second) == first \o second

\* Iterator::collect::<HashMap<_, _>>(): a later pair replaces an earlier one
collect(pairs) ==
    [k \in {pairs[i][1] : i \in DOMAIN pairs} |->
        pairs[CHOOSE i \in DOMAIN pairs :
                /\ pairs[i][1] = k
                /\ \A j \in DOMAIN pairs : pairs[j][1] = k => j <= i][2]]

create_env_for_mcp_server(parent, extra_env) ==
    collect(chain(default_pairs(parent),
                  into_iter(IF extra_env = None THEN <<>> ELSE extra_env.v)))

CreateEnvForMcpServer ==
    /\ libcall.op = "create_env"
    /\ libcall.result = None
    /\ libcall' = [libcall EXCEPT !.result =
                        Some(create_env_for_mcp_server(libcall.parent, libcall.extra_env))]
    /\ UNCHANGED schedvars

DefaultNames == {DEFAULT_ENV_VARS[i] : i \in DOMAIN DEFAULT_ENV_VARS}
ExtraOf(c) == IF c.extra_env = None THEN <<>> ELSE c.extra_env.v

\* the result is the overlay of extra on the parent variables named in keep
IsOverlay(c, keep) ==
    LET env == c.result.v IN
    /\ DOMAIN env = keep \cup DOMAIN ExtraOf(c)
    /\ \A k \in DOMAIN env :
          env[k] = IF k \in DOMAIN ExtraOf(c) THEN ExtraOf(c)[k] ELSE c.parent[k].s

\* C17 as stated (MCP stdio environment): the result is exactly the parent
\* environment restricted to DEFAULT_ENV_VARS, overlaid with the per-server env.
C17_EnvIsParentDefaultsPlusExtra ==
    (libcall.op = "create_env" /\ libcall.result # None) =>
        IsOverlay(libcall, DefaultNames \cap DOMAIN libcall.parent)

\* C17 amended: the result is the parent environment restricted to the
\* DEFAULT_ENV_VARS whose value is valid Unicode, overlaid with the per-server
\* env: a per-server value wins over the parent's, and no parent variable outside
\* DEFAULT_ENV_VARS appears unless the per-server map sets it.
C17_EnvIsUnicodeParentDefaultsPlusExtra ==
    (libcall.op = "create_env" /\ libcall.result # None) =>
        IsOverlay(libcall, {k \in DefaultNames \cap DOMAIN libcall.parent :
                                libcall.parent[k].unicode})

\* the parent sets TZ and API_KEY, the server overrides TZ only
C17_Witness ==
    /\ libcall.op = "create_env"
    /\ libcall.result # None
    /\ DOMAIN libcall.parent = {"HOME", "TZ", "API_KEY"}
    /\ \A k \in DOMAIN libcall.parent : libcall.parent[k].unicode
    /\ libcall.extra_env = Some([k \in {"TZ"} |-> "custom"])
    /\ libcall.result.v = [k \in {"HOME", "TZ"} |-> IF k = "TZ" THEN "custom" ELSE "parent"]

----------------------------------------------------------------------------
\* core/src/config_types.rs: ShellEnvironmentPolicy, and the environment built
\* from it for a shell tool call

\* the characters of the variable names and patterns of the model
Chars ==
    ("PATH" :> <<"P", "A", "T", "H">>) @@
    ("HOME" :> <<"H", "O", "M", "E">>) @@
    ("API_KEY" :> <<"A", "P", "I", "_", "K", "E", "Y">>) @@
    ("GH_TOKEN" :> <<"G", "H", "_", "T", "O", "K", "E", "N">>) @@
    ("FOO" :> <<"F", "O", "O">>) @@
    ("*KEY*" :> <<"*", "K", "E", "Y", "*">>) @@
    ("*TOKEN*" :> <<"*", "T", "O", "K", "E", "N", "*">>) @@
    ("foo*" :> <<"f", "o", "o", "*">>) @@
    ("*path*" :> <<"*", "p", "a", "t", "h", "*">>) @@
    ("?OO" :> <<"?", "O", "O">>)

to_lower(c) ==
    LET upper == <<"A", "B", "C", "D", "E", "F", "G", "H", "I", "J", "K", "L", "M", "N", "O", "P", "Q", "R", "S", "T", "U", "V", "W", "X", "Y", "Z">>
        lower == <<"a", "b", "c", "d", "e", "f", "g", "h", "i", "j", "k", "l", "m", "n", "o", "p", "q", "r", "s", "t", "u", "v", "w", "x", "y", "z">>
    IN  IF \E i \in DOMAIN upper : upper[i] = c
        THEN lower[CHOOSE i \in DOMAIN upper : upper[i] = c] ELSE c

\* WildMatchPattern<'*', '?'>: * stands for any run of characters, ? for one
RECURSIVE wild(_, _)
wild(p, s) ==
    IF p = <<>> THEN s = <<>>
    ELSE IF Head(p) = "*" THEN wild(Tail(p), s) \/ (s # <<>> /\ wild(p, Tail(s)))
    ELSE /\ s # <<>>
         /\ Head(p) = "?" \/ to_lower(Head(p)) = to_lower(Head(s))
         /\ wild(Tail(p), Tail(s))

\* EnvironmentVariablePattern::new_case_insensitive(pattern).matches(name)
matches(pattern, name) == wild(Chars[pattern], Chars[name])
matches_any(patterns, name) == \E i \in DOMAIN patterns : matches(patterns[i], name)

\* ShellEnvironmentPolicyToml: every field optional
ShellEnvironmentPolicyTomls ==
    [inherit : {None, Some("Core"), Some("None")},
     ignore_default_excludes : {None, Some(TRUE)},
     exclude : {None, Some(<<"foo*">>)},
     set : {None} \cup {Some([k \in D |-> "set"]) : D \in SUBSET {"API_KEY", "FOO"}},
     include_only : {None, Some(<<"*path*", "?OO">>)}]

unwrap_or(o, default) == IF o = None THEN default ELSE o.v

\* impl From<ShellEnvironmentPolicyToml> for ShellEnvironmentPolicy
policy_from(toml) ==
    [inherit |-> unwrap_or(toml.inherit, "All"),
     ignore_default_excludes |-> unwrap_or(toml.ignore_default_excludes, FALSE),
     exclude |-> unwrap_or(toml.exclude, <<>>),
     set |-> unwrap_or(toml.set, <<>>),
     include_only |-> unwrap_or(toml.include_only, <<>>)]

\* the variables that inherit = Core keeps
CoreVars == {"HOME", "PATH"}
ShellParentEnvs == UNION {[D -> {"parent"}] : D \in SUBSET {"PATH", "API_KEY", "GH_TOKEN", "FOO"}}

restrict(env, names) == [k \in DOMAIN env \cap names |-> env[k]]

\* Faulty variant: the loop stops after the first variable it removes
exclude_first_match(env, patterns) ==
    IF \E k \in DOMAIN env : matches_any(patterns, k)
    THEN restrict(env, DOMAIN env \ {CHOOSE k \in DOMAIN env : matches_any(patterns, k)})
    ELSE env

\* drop every variable whose name matches one of the patterns
exclude_matching(env, patterns) ==
    restrict(env, {k \in DOMAIN env : ~matches_any(patterns, k)})

\* Faulty variant: set is overlaid before the exclusions are applied
EnvPolicyOrderSetFirst == <<"inherit", "set", "default_excludes", "exclude", "include_only">>

\* the five steps, in the order the policy documents them
EnvPolicyOrder == <<"inherit", "default_excludes", "exclude", "set", "include_only">>

\* one step of the derivation
env_step(step, policy, parent, env) ==
    CASE step = "inherit" ->
            IF policy.inherit = "All" THEN parent
            ELSE IF policy.inherit = "Core" THEN restrict(parent, CoreVars)
            ELSE <<>>
      [] step = "default_excludes" ->
            IF policy.ignore_default_excludes THEN env
            ELSE exclude_matching(env, <<"*KEY*", "*TOKEN*">>)
      [] step = "exclude" ->
            IF policy.exclude = <<>> THEN env ELSE exclude_matching(env, policy.exclude)
      [] step = "set" ->
            [k \in DOMAIN env \cup DOMAIN policy.set |->
                IF k \in DOMAIN policy.set THEN policy.set[k] ELSE env[k]]
      [] step = "include_only" ->
            IF policy.include_only = <<>> THEN env
            ELSE restrict(env, {k \in DOMAIN env : matches_any(policy.include_only, k)})

RECURSIVE env_steps(_, _, _, _)
env_steps(order, policy, parent, env) ==
    IF order = <<>> THEN env
    ELSE env_steps(Tail(order), policy, parent, env_step(Head(order), policy, parent, env))

\* the environment of a shell tool call under the policy
create_env(policy, parent) == env_steps(EnvPolicyOrder, policy, parent, <<>>)

\* the environment is built three times: twice from the parent environment,
\* then from the result of the first build
CreateEnv ==
    /\ libcall.op = "shell_env"
    /\ Len(libcall.runs) < 3
    /\ libcall' = [libcall EXCEPT !.runs = Append(@,
            create_env(policy_from(libcall.toml),
                       IF Len(libcall.runs) < 2 THEN libcall.parent ELSE libcall.runs[1]))]
    /\ UNCHANGED schedvars

\* C18 (shell environment policy order): a variable of set is in the result with
\* its set value, whatever the default and user exclude patterns say, unless
\* include_only is non-empty and matches none of its names, and then it is not
\* in the result; a variable not in set is in the result exactly when inherit
\* lets it in, no applicable exclusion matches it and include_only, if
\* non-empty, matches it.
C18_EnvPolicyOrder ==
    (libcall.op = "shell_env" /\ libcall.runs # <<>>) =>
        LET policy == policy_from(libcall.toml)
            env == libcall.runs[1]
            included(k) == policy.include_only = <<>> \/ matches_any(policy.include_only, k)
            inherited(k) ==
                /\ k \in DOMAIN libcall.parent
                /\ policy.inherit = "All" \/ (policy.inherit = "Core" /\ k \in CoreVars)
                /\ policy.ignore_default_excludes
                      \/ ~(matches("*KEY*", k) \/ matches("*TOKEN*", k))
                /\ ~matches_any(policy.exclude, k)
        IN  /\ \A k \in DOMAIN policy.set :
                  IF included(k) THEN k \in DOMAIN env /\ env[k] = policy.set[k]
                  ELSE k \notin DOMAIN env
            /\ \A k \in DOMAIN libcall.parent \ DOMAIN policy.set :
                  k \in DOMAIN env <=> inherited(k) /\ included(k)
            /\ \A k \in DOMAIN env \ DOMAIN policy.set : env[k] = libcall.parent[k]
            /\ DOMAIN env \subseteq DOMAIN libcall.parent \cup DOMAIN policy.set

\* API_KEY comes from set and stays although *KEY* and the default exclusion
\* removed the inherited GH_TOKEN
C18_Witness ==
    /\ libcall.op = "shell_env"
    /\ libcall.runs # <<>>
    /\ libcall.toml.ignore_default_excludes = None
    /\ libcall.toml.include_only = None
    /\ libcall.toml.set = Some([k \in {"API_KEY"} |-> "set"])
    /\ DOMAIN libcall.parent = {"PATH", "API_KEY", "GH_TOKEN", "FOO"}
    /\ libcall.toml.inherit = None
    /\ libcall.toml.exclude = None
    /\ libcall.runs[1] = [k \in {"PATH", "API_KEY", "FOO"} |->
                            IF k = "API_KEY" THEN "set" ELSE "parent"]

----------------------------------------------------------------------------
\* The library functions, each called on its own with arguments drawn from the
\* sets above.

\* a deserialize call that has returned
Deserialized == libcall.op = "deserialize" /\ libcall.result # None

\* C27: MCP transport selection.  A config with command (and no url or
\* bearer_token, its timeouts valid) deserializes to Stdio with that command,
\* args as given or the empty list when absent, and env as given; a config
\* with url and no command (and no args or env) deserializes to
\* StreamableHttp with that url and bearer_token as given.
C27_TransportSelection ==
    LET raw == libcall.raw IN
    (Deserialized /\ TimeoutsValid(raw)) =>
        /\ (raw.command # None /\ raw.url = None /\ raw.bearer_token = None) =>
              /\ libcall.result.v.ok
              /\ libcall.result.v.v.transport =
                    [type |-> "Stdio",
                     command |-> raw.command.v,
                     args |-> IF raw.args = None THEN <<>> ELSE raw.args.v,
                     env |-> raw.env]
        /\ (raw.command = None /\ raw.url # None /\ raw.args = None /\ raw.env = None) =>
              /\ libcall.result.v.ok
              /\ libcall.result.v.v.transport =
                    [type |-> "StreamableHttp",
                     url |-> raw.url.v,
                     bearer_token |-> raw.bearer_token]

\* a stdio server given without args and with an env
C27_Witness ==
    /\ Deserialized
    /\ libcall.raw.command # None /\ libcall.raw.args = None /\ libcall.raw.env # None
    /\ libcall.result.v.ok
    /\ libcall.result.v.v.transport.type = "Stdio"
    /\ libcall.result.v.v.transport.args = <<>>

\* the other fields of raw let deserialization through
TransportAndToolTimeoutValid(raw) ==
    /\ \/ raw.command # None /\ raw.url = None /\ raw.bearer_token = None
       \/ raw.command = None /\ raw.url # None /\ raw.args = None /\ raw.env = None
    /\ raw.tool_timeout_sec # None => raw.tool_timeout_sec.v >= 0

\* C28: startup timeout precedence.  The startup timeout is startup_timeout_sec
\* when that is present, whatever startup_timeout_ms is; otherwise
\* startup_timeout_ms when present; otherwise none.  A negative
\* startup_timeout_sec makes deserialization fail.  (Durations in milliseconds.)
C28_StartupTimeoutPrecedence ==
    LET raw == libcall.raw IN
    Deserialized =>
        /\ (raw.startup_timeout_sec # None /\ raw.startup_timeout_sec.v < 0) =>
              ~ libcall.result.v.ok
        /\ (TransportAndToolTimeoutValid(raw)
            /\ ~ (raw.startup_timeout_sec # None /\ raw.startup_timeout_sec.v < 0)) =>
              /\ libcall.result.v.ok
              /\ libcall.result.v.v.startup_timeout_sec =
                    IF raw.startup_timeout_sec # None
                    THEN Some(raw.startup_timeout_sec.v * 1000)
                    ELSE raw.startup_timeout_ms

\* both fields given: the seconds win
C28_Witness ==
    /\ Deserialized
    /\ libcall.raw.startup_timeout_sec = Some(2)
    /\ libcall.raw.startup_timeout_ms = Some(1500)
    /\ libcall.result.v.ok
    /\ libcall.result.v.v.startup_timeout_sec = Some(2000)

\* C26: exactly one terminal event per task.  No sub_id has both a
\* TaskComplete and a TurnAborted (or two of either), and once the run future
\* of a task has ended, by completing or by being cancelled, and the caller
\* has finished the abort it was in, its sub_id has one.
C26_ExactlyOneTerminal ==
    \A s \in SubIds :
        /\ Cardinality(TerminalsOf(s)) <= 1
        /\ (is_finished(futures[s]) /\ caller.pc = "idle")
              => Cardinality(TerminalsOf(s)) = 1

(***************************************************************************)
(* The JSON event processor of the headless runner                         *)
(* (codex-rs/exec/src/experimental_event_processor_with_json_output.rs).   *)
(* libcall holds the processor's fields, the events handed to              *)
(* collect_conversation_events so far (seen) and what each call returned   *)
(* (outs).                                                                 *)
(***************************************************************************)
MaxEvents == 4      \* events one processor is handed

\* codex_core::protocol::TokenUsage, of which the processor reads three fields
TokenUsage(i, c, o) ==
    [input_tokens |-> i, cached_input_tokens |-> c, output_tokens |-> o,
     total_tokens |-> i + o]

\* Option<TokenUsageInfo> of a TokenCount event
TokenUsageInfos ==
    {None,
     Some([total_token_usage |-> TokenUsage(10, 4, 3),
           last_token_usage |-> TokenUsage(10, 4, 3)]),
     Some([total_token_usage |-> TokenUsage(25, 6, 9),
           last_token_usage |-> TokenUsage(15, 2, 6)])}

\* a PathBuf: one that is not valid Unicode has no &str
Path(s, unicode) == [os_str |-> s, unicode |-> unicode]
to_str(path) == IF path.unicode THEN Some(path.os_str) ELSE None

\* the events of the core that reach the processor; TurnAborted stands for the
\* variants the match sends to its last arm
EventMsgs ==
    {[msg |-> "SessionConfigured", session_id |-> "s1"],
     [msg |-> "AgentMessage", message |-> "hello"],
     [msg |-> "AgentReasoning", text |-> "because"],
     [msg |-> "TaskStarted"],
     [msg |-> "TaskComplete", last_agent_message |-> Some("hello")],
     [msg |-> "Error", message |-> "boom"],
     [msg |-> "StreamError", message |-> "retrying"],
     [msg |-> "TurnAborted", reason |-> "Interrupted"]}
    \cup {[msg |-> "ExecCommandBegin", call_id |-> "c1", command |-> <<"echo", "a b">>],
          [msg |-> "ExecCommandBegin", call_id |-> "c2", command |-> <<"printf", "NUL">>]}
    \cup {[msg |-> "ExecCommandEnd", call_id |-> c, exit_code |-> x,
           aggregated_output |-> "out"] : c \in {"c1", "c2"}, x \in {0, 1}}
    \cup {[msg |-> "PatchApplyBegin", call_id |-> "c1",
           changes |-> (Path("a.rs", TRUE) :> "Add" @@ Path("b.rs", TRUE) :> "Update")],
          [msg |-> "PatchApplyBegin", call_id |-> "c1",
           changes |-> (Path("raw", FALSE) :> "Delete")]}
    \cup {[msg |-> "PatchApplyEnd", call_id |-> "c1", success |-> b] : b \in BOOLEAN}
    \cup {[msg |-> "TokenCount", info |-> i] : i \in TokenUsageInfos}
    \cup {[msg |-> "PlanUpdate", plan |-> <<[step |-> "read", status |-> "InProgress"]>>],
          [msg |-> "PlanUpdate", plan |-> <<[step |-> "read", status |-> "Completed"],
                                           [step |-> "write", status |-> "Pending"]>>]}

\* ExperimentalEventProcessorWithJsonOutput::new
new_processor ==
    [op |-> "headless",
     next_event_id |-> 0,
     running_commands |-> <<>>,
     running_patch_applies |-> <<>>,
     running_todo_list |-> None,
     last_total_token_usage |-> None,
     seen |-> <<>>,
     outs |-> <<>>]

\* what a handler hands back: the processor after it and the events it returns
Handled(self, out) == [self |-> self, out |-> out]

\* ConversationEvent::ItemStarted / ItemUpdated / ItemCompleted of a ConversationItem
ItemEvent(type, id, details) == [type |-> type, item |-> [id |-> id, details |-> details]]

remove(map, key) == [k \in DOMAIN map \ {key} |-> map[k]]

\* the orders in which a HashMap hands out its keys
iter(map) ==
    {s \in [1 .. Cardinality(DOMAIN map) -> DOMAIN map] :
        \A i, j \in DOMAIN s : s[i] = s[j] => i = j}

\* an id taken from a counter that is read and not advanced
get_item_id_without_add(self) == [self |-> self, id |-> <<"item", self.next_event_id>>]

\* format!("item_{}", next_event_id.fetch_add(1)); the AtomicU64 wraps after
\* 2^64 ids, which no run of MaxEvents events comes near
get_next_item_id(self) ==
    [self |-> [self EXCEPT !.next_event_id = @ + 1],
     id |-> <<"item", self.next_event_id>>]

handle_session_configured(self, payload) ==
    Handled(self, <<[type |-> "SessionCreated", session_id |-> payload.session_id]>>)

handle_agent_message(self, payload) ==
    LET n == get_next_item_id(self)
    IN  Handled(n.self,
                <<ItemEvent("ItemCompleted", n.id,
                    [kind |-> "AssistantMessage", text |-> payload.message])>>)

handle_reasoning_event(self, ev) ==
    LET n == get_next_item_id(self)
    IN  Handled(n.self,
                <<ItemEvent("ItemCompleted", n.id,
                    [kind |-> "Reasoning", text |-> ev.text])>>)

\* shlex::try_join: a word with a nul byte cannot be quoted
try_join(command) ==
    IF \E i \in DOMAIN command : command[i] = "NUL"
    THEN Err(<<"nul byte">>)
    ELSE Ok([quoted |-> command])

handle_exec_command_begin(self, ev) ==
    LET n == get_next_item_id(self)
        joined == try_join(ev.command)
        command_string == IF joined.ok THEN joined.v ELSE [joined |-> ev.command]
        after == [n.self EXCEPT !.running_commands =
                      insert(@, ev.call_id, [command |-> command_string, item_id |-> n.id])]
    IN  Handled(after,
                <<ItemEvent("ItemStarted", n.id,
                    [kind |-> "CommandExecution",
                     command |-> command_string,
                     aggregated_output |-> "",
                     exit_code |-> None,
                     status |-> "InProgress"])>>)

handle_patch_apply_begin(self, ev) ==
    Handled([self EXCEPT !.running_patch_applies = insert(@, ev.call_id, ev)], <<>>)

map_change_kind(kind) == kind

\* a PatchApplyEnd that leaves its entry in running_patch_applies
patch_apply_end_keeps_entry(self, ev, keys) ==
    IF ev.call_id \in DOMAIN self.running_patch_applies
    THEN LET running_patch_apply == self.running_patch_applies[ev.call_id]
             n == get_next_item_id(self)
         IN  Handled(n.self,
                     <<ItemEvent("ItemCompleted", n.id,
                         [kind |-> "FileChange",
                          changes |-> [i \in DOMAIN keys |->
                              [path |-> unwrap_or(to_str(keys[i]), ""),
                               kind |-> map_change_kind(
                                            running_patch_apply.changes[keys[i]])]],
                          status |-> IF ev.success THEN "Completed" ELSE "Failed"])>>)
    ELSE Handled(self, <<>>)

\* keys: the order in which the changes of the running patch are iterated
handle_patch_apply_end(self, ev, keys) ==
    IF ev.call_id \in DOMAIN self.running_patch_applies
    THEN LET running_patch_apply == self.running_patch_applies[ev.call_id]
             removed == [self EXCEPT !.running_patch_applies = remove(@, ev.call_id)]
             status == IF ev.success THEN "Completed" ELSE "Failed"
             n == get_next_item_id(removed)
         IN  Handled(n.self,
                     <<ItemEvent("ItemCompleted", n.id,
                         [kind |-> "FileChange",
                          changes |-> [i \in DOMAIN keys |->
                              [path |-> unwrap_or(to_str(keys[i]), ""),
                               kind |-> map_change_kind(
                                            running_patch_apply.changes[keys[i]])]],
                          status |-> status])>>)
    ELSE Handled(self, <<>>)

\* an ExecCommandEnd that leaves its entry in running_commands
exec_command_end_keeps_entry(self, ev) ==
    IF ev.call_id \notin DOMAIN self.running_commands
    THEN Handled(self, <<>>)
    ELSE LET running == self.running_commands[ev.call_id]
         IN  Handled(self,
                     <<ItemEvent("ItemCompleted", running.item_id,
                         [kind |-> "CommandExecution",
                          command |-> running.command,
                          aggregated_output |-> ev.aggregated_output,
                          exit_code |-> Some(ev.exit_code),
                          status |-> IF ev.exit_code = 0 THEN "Completed" ELSE "Failed"])>>)

handle_exec_command_end(self, ev) ==
    IF ev.call_id \notin DOMAIN self.running_commands
    THEN Handled(self, <<>>)
    ELSE LET running == self.running_commands[ev.call_id]
             status == IF ev.exit_code = 0 THEN "Completed" ELSE "Failed"
         IN  Handled([self EXCEPT !.running_commands = remove(@, ev.call_id)],
                     <<ItemEvent("ItemCompleted", running.item_id,
                         [kind |-> "CommandExecution",
                          command |-> running.command,
                          aggregated_output |-> ev.aggregated_output,
                          exit_code |-> Some(ev.exit_code),
                          status |-> status])>>)

todo_items_from_plan(args) ==
    [i \in DOMAIN args.plan |->
        [text |-> args.plan[i].step, completed |-> args.plan[i].status = "Completed"]]

handle_plan_update(self, args) ==
    LET items == todo_items_from_plan(args)
    IN  IF self.running_todo_list # None
        THEN LET running == self.running_todo_list.v
             IN  Handled([self EXCEPT !.running_todo_list =
                              Some([running EXCEPT !.items = items])],
                         <<ItemEvent("ItemUpdated", running.item_id,
                             [kind |-> "TodoList", items |-> items])>>)
        ELSE LET n == get_next_item_id(self)
             IN  Handled([n.self EXCEPT !.running_todo_list =
                              Some([item_id |-> n.id, items |-> items])],
                         <<ItemEvent("ItemStarted", n.id,
                             [kind |-> "TodoList", items |-> items])>>)

handle_task_started(self) == Handled(self, <<[type |-> "TurnStarted"]>>)

\* Usage { input_tokens, cached_input_tokens, output_tokens }
Usage(i, c, o) == [input_tokens |-> i, cached_input_tokens |-> c, output_tokens |-> o]

handle_task_complete(self) ==
    LET usage == IF self.last_total_token_usage # None
                 THEN LET u == self.last_total_token_usage.v
                      IN  Usage(u.input_tokens, u.cached_input_tokens, u.output_tokens)
                 ELSE Usage(0, 0, 0)
        items == IF self.running_todo_list # None
                 THEN LET running == self.running_todo_list.v
                      IN  <<ItemEvent("ItemCompleted", running.item_id,
                              [kind |-> "TodoList", items |-> running.items])>>
                 ELSE <<>>
    IN  Handled([self EXCEPT !.running_todo_list = None],
                Append(items, [type |-> "TurnCompleted", usage |-> usage]))

\* a TokenCount whose info is None forgets the usage seen so far
token_count_forgets(self, ev) ==
    Handled([self EXCEPT !.last_total_token_usage =
                 IF ev.info # None THEN Some(ev.info.v.total_token_usage) ELSE None],
            <<>>)

\* the TokenCount arm of collect_conversation_events
token_count(self, ev) ==
    Handled(IF ev.info # None
            THEN [self EXCEPT !.last_total_token_usage = Some(ev.info.v.total_token_usage)]
            ELSE self,
            <<>>)

collect_conversation_events(self, event, keys) ==
    CASE event.msg = "SessionConfigured" -> handle_session_configured(self, event)
      [] event.msg = "AgentMessage" -> handle_agent_message(self, event)
      [] event.msg = "AgentReasoning" -> handle_reasoning_event(self, event)
      [] event.msg = "ExecCommandBegin" -> handle_exec_command_begin(self, event)
      [] event.msg = "ExecCommandEnd" -> handle_exec_command_end(self, event)
      [] event.msg = "PatchApplyBegin" -> handle_patch_apply_begin(self, event)
      [] event.msg = "PatchApplyEnd" -> handle_patch_apply_end(self, event, keys)
      [] event.msg = "TokenCount" -> token_count(self, event)
      [] event.msg = "TaskStarted" -> handle_task_started(self)
      [] event.msg = "TaskComplete" -> handle_task_complete(self)
      [] event.msg \in {"Error", "StreamError"} ->
            Handled(self, <<[type |-> "Error", message |-> event.message]>>)
      [] event.msg = "PlanUpdate" -> handle_plan_update(self, event)
      [] OTHER -> Handled(self, <<>>)

\* one call of collect_conversation_events by process_event
CollectConversationEvents ==
    /\ libcall.op = "headless"
    /\ Len(libcall.seen) < MaxEvents
    /\ \E event \in EventMsgs :
         \E keys \in IF /\ event.msg = "PatchApplyEnd"
                        /\ event.call_id \in DOMAIN libcall.running_patch_applies
                     THEN iter(libcall.running_patch_applies[event.call_id].changes)
                     ELSE {<<>>} :
            LET h == collect_conversation_events(libcall, event, keys)
            IN  libcall' = [h.self EXCEPT !.seen = Append(@, event),
                                          !.outs = Append(@, h.out)]
    /\ UNCHANGED schedvars

\* the events handed to the processor before the i-th that are a TokenCount
\* carrying info
InfoBefore(i) ==
    {j \in 1 .. i - 1 : libcall.seen[j].msg = "TokenCount" /\ libcall.seen[j].info # None}

\* the three counters of a turn.completed line
UsageCounters == {"input_tokens", "cached_input_tokens", "output_tokens"}

\* C20: headless turn framing.  Whatever events came before, TaskStarted
\* returns exactly one TurnStarted, TokenCount returns nothing, and
\* TaskComplete returns a list that ends with TurnCompleted whose usage is the
\* total token usage of the latest earlier TokenCount that carried info, or all
\* zeros when there was none.
C20_TurnFraming ==
    libcall.op = "headless" =>
        \A i \in DOMAIN libcall.seen :
            LET event == libcall.seen[i]
                out == libcall.outs[i]
            IN  /\ event.msg = "TaskStarted" => out = <<[type |-> "TurnStarted"]>>
                /\ event.msg = "TokenCount" => out = <<>>
                /\ event.msg = "TaskComplete" =>
                      /\ out # <<>>
                      /\ out[Len(out)].type = "TurnCompleted"
                      /\ \A f \in UsageCounters :
                            out[Len(out)].usage[f] =
                                IF InfoBefore(i) = {}
                                THEN 0
                                ELSE LET j == CHOOSE j \in InfoBefore(i) :
                                                  \A k \in InfoBefore(i) : k <= j
                                     IN  libcall.seen[j].info.v.total_token_usage[f]
                      /\ DOMAIN out[Len(out)].usage = UsageCounters

\* a turn that starts, reports its usage, reports a TokenCount without info,
\* and completes
C20_Witness ==
    /\ libcall.op = "headless"
    /\ Len(libcall.seen) = 4
    /\ libcall.seen[1].msg = "TaskStarted"
    /\ libcall.seen[2].msg = "TokenCount" /\ libcall.seen[2].info # None
    /\ libcall.seen[3].msg = "TokenCount" /\ libcall.seen[3].info = None
    /\ libcall.seen[4].msg = "TaskComplete"
    /\ libcall.outs[4][1].usage.input_tokens > 0
    /\ libcall.outs[1] = <<[type |-> "TurnStarted"]>>

\* the items of the list returned for the j-th event
ItemsOf(j) ==
    {libcall.outs[j][n].item :
        n \in {m \in DOMAIN libcall.outs[j] :
                  libcall.outs[j][m].type \in {"ItemStarted", "ItemUpdated", "ItemCompleted"}}}

\* the ExecCommandBegin an ExecCommandEnd handed in as k-th event answers: the
\* latest earlier one with its call_id that no ExecCommandEnd came after
OutstandingBegin(k) ==
    {i \in 1 .. k - 1 :
        /\ libcall.seen[i].msg = "ExecCommandBegin"
        /\ libcall.seen[i].call_id = libcall.seen[k].call_id
        /\ \A j \in i + 1 .. k - 1 :
              ~ /\ libcall.seen[j].msg \in {"ExecCommandBegin", "ExecCommandEnd"}
                /\ libcall.seen[j].call_id = libcall.seen[k].call_id}

BUFFER_SIZE == 11   \* bytes of the stack buffer (1024 in the program)

AUTH_HEADER_PREFIX == <<"B", "e", "a", "r", "e", "r", " ">>

\* what read_fn does with the slice it is given: it fails, or it writes data
\* and reports how many bytes it read
ReadFns ==
    {Err("boom")}
    \cup {[ok |-> TRUE, v |-> n, data |-> d] :
            n \in 0 .. BUFFER_SIZE - Len(AUTH_HEADER_PREFIX),
            d \in [1 .. BUFFER_SIZE - Len(AUTH_HEADER_PREFIX) ->
                      {"s", "k", "LF", "CR", "x00", "xC3", "xA9", "xFF"}]}

\* a wipe that leaves the bytes in place
zeroize_nothing(buf) == buf

zeroize(buf) == [i \in DOMAIN buf |-> "x00"]

\* std::str::from_utf8
RECURSIVE valid_utf8(_, _)
valid_utf8(bytes, i) ==
    IF i > Len(bytes) THEN TRUE
    ELSE IF bytes[i] = "xC3"
         THEN i + 1 <= Len(bytes) /\ bytes[i + 1] = "xA9" /\ valid_utf8(bytes, i + 2)
         ELSE bytes[i] \notin {"xA9", "xFF"} /\ valid_utf8(bytes, i + 1)

\* a from_utf8 that takes any bytes
from_utf8_unchecked(bytes) == Ok(bytes)

from_utf8(bytes) == IF valid_utf8(bytes, 1) THEN Ok(bytes) ELSE Err("UTF-8")

\* a loop that takes off the line feeds only
RECURSIVE trim_line_feeds(_, _)
trim_line_feeds(buf, total) ==
    IF total > Len(AUTH_HEADER_PREFIX) /\ buf[total] = "LF"
    THEN trim_line_feeds(buf, total - 1)
    ELSE total

\* the while loop over total
RECURSIVE trim_newlines(_, _)
trim_newlines(buf, total) ==
    IF total > Len(AUTH_HEADER_PREFIX) /\ (buf[total] = "LF" \/ buf[total] = "CR")
    THEN trim_newlines(buf, total - 1)
    ELSE total

\* the result and the stack buffer as the function leaves it
read_auth_header_with(read_fn) ==
    LET buf0 == AUTH_HEADER_PREFIX
                \o [i \in 1 .. BUFFER_SIZE - Len(AUTH_HEADER_PREFIX) |-> "x00"]
    IN  IF ~ read_fn.ok
        THEN [result |-> read_fn, buf |-> zeroize(buf0)]
        ELSE LET buf == AUTH_HEADER_PREFIX \o read_fn.data
                 read == read_fn.v
             IN  IF read = Len(buf) - Len(AUTH_HEADER_PREFIX)
                 THEN [result |-> Err("too large"), buf |-> zeroize(buf)]
                 ELSE LET total == trim_newlines(buf, Len(AUTH_HEADER_PREFIX) + read)
                      IN  IF total = Len(AUTH_HEADER_PREFIX)
                          THEN [result |-> Err("must be provided"), buf |-> zeroize(buf)]
                          ELSE LET header_str == from_utf8(SubSeq(buf, 1, total))
                               IN  IF ~ header_str.ok
                                   THEN [result |-> header_str, buf |-> zeroize(buf)]
                                   ELSE [result |-> Ok(header_str.v), buf |-> zeroize(buf)]

ReadAuthHeaderWith ==
    /\ libcall.op = "read_auth_header" /\ libcall.returned = None
    /\ libcall' = [libcall EXCEPT !.returned = Some(read_auth_header_with(libcall.read_fn))]
    /\ UNCHANGED schedvars

\* the bytes the read reported, and whether they are line ends only
BytesRead == SubSeq(libcall.read_fn.data, 1, libcall.read_fn.v)
OnlyNewlines == \A i \in DOMAIN BytesRead : BytesRead[i] \in {"CR", "LF"}
ReadReturned == libcall.op = "read_auth_header" /\ libcall.returned # None
ReadSpace == BUFFER_SIZE - 7

\* C22: API key header.  When the read returns n bytes, 0 < n < BUFFER_SIZE - 7,
\* that are valid UTF-8 and not only CR/LF, the function returns "Bearer "
\* followed by the bytes read up to the last byte that is neither CR nor LF.
C22_HeaderIsPrefixPlusTrimmedKey ==
    (/\ ReadReturned
     /\ libcall.read_fn.ok
     /\ 0 < libcall.read_fn.v /\ libcall.read_fn.v < ReadSpace
     /\ valid_utf8(BytesRead, 1)
     /\ ~ OnlyNewlines)
    => LET last == CHOOSE m \in DOMAIN BytesRead :
                      /\ BytesRead[m] \notin {"CR", "LF"}
                      /\ \A i \in m + 1 .. Len(BytesRead) : BytesRead[i] \in {"CR", "LF"}
       IN  libcall.returned.v.result =
               Ok(<<"B", "e", "a", "r", "e", "r", " ">> \o SubSeq(BytesRead, 1, last))

\* a key that starts with a line feed, holds a two-byte character, and ends
\* with one line end
C22_Witness ==
    /\ ReadReturned
    /\ libcall.read_fn.ok
    /\ libcall.read_fn.v = 3
    /\ BytesRead \in {<<"LF", "k", "CR">>, <<"xC3", "xA9", "LF">>}
    /\ libcall.returned.v.result.ok
    /\ Len(libcall.returned.v.result.v) = 9

\* C23 as stated: an error and no header when the read returns 0 bytes or only
\* CR/LF ("must be provided"), when it returns BUFFER_SIZE - 7 bytes ("too
\* large"), when the bytes are not valid UTF-8, and when the read fails (the
\* I/O error is handed on).
C23_RejectionAsStated ==
    ReadReturned =>
        LET result == libcall.returned.v.result
        IN  IF ~ libcall.read_fn.ok
            THEN result = libcall.read_fn
            ELSE /\ OnlyNewlines => result = Err("must be provided")
                 /\ libcall.read_fn.v = ReadSpace => result = Err("too large")
                 /\ ~ valid_utf8(BytesRead, 1) => ~ result.ok

\* C23, amended: the size check comes first.  A read of BUFFER_SIZE - 7 bytes
\* is "too large" whatever the bytes are; a shorter read of 0 bytes or of only
\* CR/LF is "must be provided"; bytes that are not valid UTF-8 give an error;
\* a failed read hands on its I/O error.  No such input gives a header.
C23_RejectionSizeCheckFirst ==
    ReadReturned =>
        LET result == libcall.returned.v.result
        IN  IF ~ libcall.read_fn.ok
            THEN result = libcall.read_fn
            ELSE /\ libcall.read_fn.v = ReadSpace => result = Err("too large")
                 /\ (libcall.read_fn.v < ReadSpace /\ OnlyNewlines)
                        => result = Err("must be provided")
                 /\ ~ valid_utf8(BytesRead, 1) => ~ result.ok

\* a read that fills the space with line ends
C23_Witness ==
    /\ ReadReturned
    /\ libcall.read_fn.ok
    /\ libcall.read_fn.v = ReadSpace
    /\ OnlyNewlines
    /\ libcall.returned.v.result = Err("too large")

(***************************************************************************)
(* The approval overlay of the terminal frontend                           *)
(* (codex-rs/tui/src/bottom_pane/approval_overlay.rs).  libcall holds the  *)
(* overlay's fields, the AppEvents it has sent (app_event_tx), and the     *)
(* call made last with what it returned.  Requests carry the number of     *)
(* their arrival as id.                                                    *)
(***************************************************************************)
MaxRequests == 3    \* approval requests one overlay is given

\* ApprovalOptions, of which the decision and the shortcut are kept
exec_options_without_session ==
    <<[decision |-> "Approved", shortcut |-> Some("y")],
      [decision |-> "Approved", shortcut |-> Some("a")],
      [decision |-> "Abort", shortcut |-> Some("n")]>>

exec_options ==
    <<[decision |-> "Approved", shortcut |-> Some("y")],
      [decision |-> "ApprovedForSession", shortcut |-> Some("a")],
      [decision |-> "Abort", shortcut |-> Some("n")]>>

patch_options ==
    <<[decision |-> "Approved", shortcut |-> Some("y")],
      [decision |-> "Abort", shortcut |-> Some("n")]>>

\* crossterm KeyEvents: letters in every kind and with every modifier, the
\* keys of the list pressed without one
KeyEvents ==
    {[code |-> <<"Char", c>>, kind |-> k, modifiers |-> m] :
        c \in {"y", "Y", "a", "A", "n", "x"},
        k \in {"Press", "Release"},
        m \in {{}, {"SHIFT"}, {"CONTROL"}, {"ALT"}}}
    \cup {[code |-> <<c>>, kind |-> "Press", modifiers |-> {}] :
            c \in {"Enter", "Up", "Down", "Esc"}}

to_ascii_lowercase(c) ==
    CASE c = "Y" -> "y" [] c = "A" -> "a" [] c = "N" -> "n" [] OTHER -> c

\* ListSelectionView::new over the options of a request: the first row is
\* highlighted
new_list(options) ==
    [len |-> Len(options), selected_idx |-> 0, last_selected_index |-> None]

\* ListSelectionView::handle_key_event: Up and Down move the highlight and
\* wrap, Enter records the highlighted row
list_handle_key_event(list, key_event) ==
    CASE key_event.code = <<"Up">> ->
            [list EXCEPT !.selected_idx = (@ + list.len - 1) % list.len]
      [] key_event.code = <<"Down">> ->
            [list EXCEPT !.selected_idx = (@ + 1) % list.len]
      [] key_event.code = <<"Enter">> ->
            [list EXCEPT !.last_selected_index = Some(list.selected_idx)]
      [] OTHER -> list

\* set_current with build_options
set_current(self, request) ==
    LET options == IF request.kind = "Exec" THEN exec_options ELSE patch_options
    IN  [self EXCEPT !.current = Some(request),
                     !.current_complete = FALSE,
                     !.options = options,
                     !.list = new_list(options)]

\* ApprovalOverlay::new
new_overlay(request) ==
    set_current([op |-> "overlay",
                 current |-> None,
                 queue |-> <<>>,
                 app_event_tx |-> <<>>,
                 list |-> new_list(<<>>),
                 options |-> <<>>,
                 current_complete |-> FALSE,
                 done |-> FALSE,
                 last |-> [call |-> "new"],
                 next_id |-> request.id + 1],
                request)

handle_exec_decision(self, id, decision) ==
    [self EXCEPT !.app_event_tx =
        @ \o <<[event |-> "InsertHistoryCell", decision |-> decision],
               [event |-> "CodexOp", op |-> "ExecApproval", id |-> id,
                decision |-> decision]>>]

handle_patch_decision(self, id, decision) ==
    [self EXCEPT !.app_event_tx =
        Append(@, [event |-> "CodexOp", op |-> "PatchApproval", id |-> id,
                   decision |-> decision])]

\* a queue served in arrival order
advance_queue_fifo(self) ==
    IF self.queue # <<>>
    THEN set_current([self EXCEPT !.queue = Tail(@)], Head(self.queue))
    ELSE [self EXCEPT !.done = TRUE]

advance_queue(self) ==
    IF self.queue # <<>>
    THEN set_current([self EXCEPT !.queue = SubSeq(@, 1, Len(@) - 1)],
                     self.queue[Len(self.queue)])
    ELSE [self EXCEPT !.done = TRUE]

apply_selection(self, actual_idx) ==
    IF self.current_complete \/ actual_idx + 1 \notin DOMAIN self.options
    THEN self
    ELSE LET option == self.options[actual_idx + 1]
             state == self.current.v
             sent == IF state.kind = "Exec"
                     THEN handle_exec_decision(self, state.id, option.decision)
                     ELSE handle_patch_decision(self, state.id, option.decision)
         IN  advance_queue([sent EXCEPT !.current_complete = TRUE])

\* whether the key was a shortcut, and the overlay after it
try_handle_shortcut(self, key_event) ==
    IF \/ key_event.kind # "Press"
       \/ key_event.code[1] # "Char"
       \/ key_event.modifiers \cap {"CONTROL", "ALT"} # {}
    THEN [handled |-> FALSE, self |-> self]
    ELSE LET lower == to_ascii_lowercase(key_event.code[2])
             hits == {i \in DOMAIN self.options : self.options[i].shortcut = Some(lower)}
         IN  IF hits # {}
             THEN [handled |-> TRUE,
                   self |-> apply_selection(self,
                               (CHOOSE i \in hits : \A j \in hits : i <= j) - 1)]
             ELSE [handled |-> FALSE, self |-> self]

handle_key_event(self, key_event) ==
    LET shortcut == try_handle_shortcut(self, key_event)
        list == list_handle_key_event(self.list, key_event)
        taken == [self EXCEPT !.list = [list EXCEPT !.last_selected_index = None]]
    IN  IF shortcut.handled THEN shortcut.self
        ELSE IF list.last_selected_index # None
             THEN apply_selection(taken, list.last_selected_index.v)
             ELSE taken

\* a Ctrl-C that leaves the queue as it is
on_ctrl_c_keeps_queue(self) ==
    IF self.done THEN self
    ELSE LET state == self.current.v
             sent == IF ~ self.current_complete /\ self.current # None
                     THEN IF state.kind = "Exec"
                          THEN handle_exec_decision(self, state.id, "Abort")
                          ELSE handle_patch_decision(self, state.id, "Abort")
                     ELSE self
         IN  [sent EXCEPT !.done = TRUE]

\* the overlay after on_ctrl_c, which returns CancellationEvent::Handled on
\* both paths
on_ctrl_c(self) ==
    IF self.done THEN self
    ELSE LET state == self.current.v
             sent == IF ~ self.current_complete /\ self.current # None
                     THEN IF state.kind = "Exec"
                          THEN handle_exec_decision(self, state.id, "Abort")
                          ELSE handle_patch_decision(self, state.id, "Abort")
                     ELSE self
         IN  [sent EXCEPT !.queue = <<>>, !.done = TRUE]

HandleKeyEvent ==
    /\ libcall.op = "overlay"
    /\ \E key_event \in KeyEvents :
          libcall' = [handle_key_event(libcall, key_event) EXCEPT
                          !.last = [call |-> "handle_key_event", key_event |-> key_event]]
    /\ UNCHANGED schedvars

OnCtrlC ==
    /\ libcall.op = "overlay"
    /\ libcall' = [on_ctrl_c(libcall) EXCEPT
                      !.last = [call |-> "on_ctrl_c", returned |-> "Handled"]]
    /\ UNCHANGED schedvars

\* try_consume_approval_request / enqueue_request
EnqueueRequest ==
    /\ libcall.op = "overlay"
    /\ libcall.next_id <= MaxRequests
    /\ \E kind \in {"Exec", "ApplyPatch"} :
          libcall' = [libcall EXCEPT
                          !.queue = Append(@, [kind |-> kind, id |-> libcall.next_id]),
                          !.next_id = @ + 1,
                          !.last = [call |-> "enqueue_request"]]
    /\ UNCHANGED schedvars

\* the decision ops among the AppEvents an overlay has sent
DecisionOps(overlay) == SelectSeq(overlay.app_event_tx, LAMBDA e : e.event = "CodexOp")

\* the decision op for a request
DecisionOp(request, decision) ==
    [event |-> "CodexOp",
     op |-> IF request.kind = "Exec" THEN "ExecApproval" ELSE "PatchApproval",
     id |-> request.id,
     decision |-> decision]

\* C24: approval overlay Ctrl-C.  On an overlay that is not done, on_ctrl_c
\* sends an Abort decision for the current request unless that request is
\* already decided, empties the queue, marks the overlay done and returns
\* Handled; on a done overlay it returns Handled, sends nothing and changes
\* nothing.
C24_CtrlC ==
    [][(libcall.op = "overlay" /\ libcall'.last.call = "on_ctrl_c") =>
          /\ libcall'.last.returned = "Handled"
          /\ IF ~ libcall.done
             THEN /\ DecisionOps(libcall') =
                        DecisionOps(libcall)
                        \o IF libcall.current_complete
                           THEN <<>>
                           ELSE <<DecisionOp(libcall.current.v, "Abort")>>
                  /\ libcall'.queue = <<>>
                  /\ libcall'.done
             ELSE /\ libcall'.app_event_tx = libcall.app_event_tx
                  /\ libcall'.queue = libcall.queue
                  /\ libcall'.done
      ]_vars

\* Ctrl-C on an overlay that shows its second request with a third one queued
C24_Witness ==
    /\ libcall.op = "overlay"
    /\ libcall.last.call = "on_ctrl_c"
    /\ libcall.next_id = 4
    /\ libcall.queue = <<>>
    /\ libcall.done
    /\ Len(DecisionOps(libcall)) = 2
    /\ DecisionOps(libcall)[2].decision = "Abort"
    /\ DecisionOps(libcall)[2].id \in {2, 3}

\* the decision a shortcut letter stands for, by kind of request
ShortcutDecision(kind, c) ==
    CASE c \in {"y", "Y"} -> Some("Approved")
      [] c \in {"a", "A"} /\ kind = "Exec" -> Some("ApprovedForSession")
      [] c \in {"n", "N"} -> Some("Abort")
      [] OTHER -> None

\* the decision a key selects on an overlay: that of the shortcut when the key
\* is a letter pressed without Ctrl or Alt, that of the highlighted row when it
\* is Enter
Selected(overlay, key_event) ==
    IF key_event.code = <<"Enter">>
    THEN Some(overlay.options[overlay.list.selected_idx + 1].decision)
    ELSE IF /\ key_event.code[1] = "Char"
            /\ key_event.kind = "Press"
            /\ key_event.modifiers \cap {"CONTROL", "ALT"} = {}
         THEN ShortcutDecision(overlay.current.v.kind, key_event.code[2])
         ELSE None

\* C25: approval overlay selection.  On an overlay that is not done, pressing
\* the shortcut letter of an option (either case, key press, no Ctrl or Alt)
\* or Enter on the highlighted option sends exactly one ExecApproval or
\* PatchApproval with the id of the current request and the decision of that
\* option, and the overlay is done afterwards exactly when no request was
\* queued.
C25_Selection ==
    [][(/\ libcall.op = "overlay"
        /\ ~ libcall.done
        /\ libcall'.last.call = "handle_key_event"
        /\ Selected(libcall, libcall'.last.key_event) # None) =>
          /\ DecisionOps(libcall') =
                Append(DecisionOps(libcall),
                       DecisionOp(libcall.current.v,
                                  Selected(libcall, libcall'.last.key_event).v))
          /\ libcall'.done <=> libcall.queue = <<>>
      ]_vars

\* the first request, a command, approved for the session; the second, a
\* patch, cancelled with Enter on the second row; the overlay done
C25_Witness ==
    /\ libcall.op = "overlay"
    /\ libcall.last.call = "handle_key_event"
    /\ libcall.last.key_event.code = <<"Enter">>
    /\ DecisionOps(libcall) =
          <<DecisionOp([kind |-> "Exec", id |-> 1], "ApprovedForSession"),
            DecisionOp([kind |-> "ApplyPatch", id |-> 2], "Abort")>>
    /\ libcall.done

\* the PlanUpdates handed in before the k-th event in the turn of the k-th
\* event; a turn ends with TaskComplete or TurnAborted
PlanUpdatesOfTurn(k) ==
    {j \in 1 .. k - 1 :
        /\ libcall.seen[j].msg = "PlanUpdate"
        /\ \A i \in j + 1 .. k - 1 :
              libcall.seen[i].msg \notin {"TaskComplete", "TurnAborted"}}

\* the todo items a plan stands for
TodoItems(plan) ==
    [i \in DOMAIN plan |-> [text |-> plan[i].step,
                            completed |-> plan[i].status = "Completed"]]

\* C29: the todo list is per turn.  The first PlanUpdate of a turn returns
\* ItemStarted with an id no earlier item has; every later PlanUpdate of the
\* turn returns ItemUpdated with that id and the new items; TaskComplete
\* returns ItemCompleted for that id right before TurnCompleted, and nothing
\* but TurnCompleted in a turn without a PlanUpdate.  A turn that follows an
\* aborted turn is a turn like any other.
C29_TodoListPerTurn ==
    libcall.op = "headless" =>
        \A k \in DOMAIN libcall.seen :
            LET event == libcall.seen[k]
                out == libcall.outs[k]
                earlier == PlanUpdatesOfTurn(k)
                first == CHOOSE j \in earlier : \A i \in earlier : j <= i
                last == CHOOSE j \in earlier : \A i \in earlier : i <= j
            IN  /\ event.msg = "PlanUpdate" =>
                      /\ Len(out) = 1
                      /\ out[1].type = IF earlier = {} THEN "ItemStarted" ELSE "ItemUpdated"
                      /\ out[1].item.details =
                            [kind |-> "TodoList", items |-> TodoItems(event.plan)]
                      /\ IF earlier = {}
                         THEN \A j \in 1 .. k - 1 : \A item \in ItemsOf(j) :
                                 item.id # out[1].item.id
                         ELSE out[1].item.id = libcall.outs[first][1].item.id
                /\ event.msg = "TaskComplete" =>
                      IF earlier = {}
                      THEN Len(out) = 1
                      ELSE /\ Len(out) = 2
                           /\ out[1].type = "ItemCompleted"
                           /\ out[1].item.id = libcall.outs[first][1].item.id
                           /\ out[1].item.details =
                                 [kind |-> "TodoList",
                                  items |-> TodoItems(libcall.seen[last].plan)]
                           /\ out[2].type = "TurnCompleted"

\* the PatchApplyBegin a PatchApplyEnd handed in as k-th event answers: the
\* latest earlier one with its call_id that no PatchApplyEnd came after
OutstandingPatch(k) ==
    {i \in 1 .. k - 1 :
        /\ libcall.seen[i].msg = "PatchApplyBegin"
        /\ libcall.seen[i].call_id = libcall.seen[k].call_id
        /\ \A j \in i + 1 .. k - 1 :
              ~ /\ libcall.seen[j].msg \in {"PatchApplyBegin", "PatchApplyEnd"}
                /\ libcall.seen[j].call_id = libcall.seen[k].call_id}

\* the list returned for the k-th event is one ItemCompleted of a FileChange
\* item with the given status that lists these (path, kind) pairs, one entry
\* each, in some order
ListsChanges(k, status, pairs) ==
    LET out == libcall.outs[k]
    IN  /\ Len(out) = 1
        /\ out[1].type = "ItemCompleted"
        /\ out[1].item.details.kind = "FileChange"
        /\ out[1].item.details.status = status
        /\ Len(out[1].item.details.changes) = Cardinality(pairs)
        /\ {<<c.path, c.kind>> :
                c \in {out[1].item.details.changes[n] :
                          n \in DOMAIN out[1].item.details.changes}} = pairs

\* what C30 says of every event but a PatchApplyEnd that answers a Begin
PatchBeginAndUnmatchedEnd(k) ==
    /\ libcall.seen[k].msg = "PatchApplyBegin" => libcall.outs[k] = <<>>
    /\ (libcall.seen[k].msg = "PatchApplyEnd" /\ OutstandingPatch(k) = {})
          => libcall.outs[k] = <<>>

\* C30 as stated: PatchApplyBegin returns nothing; the PatchApplyEnd of an
\* outstanding PatchApplyBegin returns exactly one ItemCompleted of a
\* FileChange item that lists the changes of that Begin, path and kind, with
\* status Completed when success is true and Failed otherwise, and the entry
\* is no longer outstanding; a PatchApplyEnd with no outstanding Begin returns
\* nothing.
C30_PatchItemAsStated ==
    libcall.op = "headless" =>
        \A k \in DOMAIN libcall.seen :
            /\ PatchBeginAndUnmatchedEnd(k)
            /\ libcall.seen[k].msg = "PatchApplyEnd" =>
                  \A i \in OutstandingPatch(k) :
                      ListsChanges(k,
                          IF libcall.seen[k].success THEN "Completed" ELSE "Failed",
                          {<<p.os_str, libcall.seen[i].changes[p]>> :
                              p \in DOMAIN libcall.seen[i].changes})

\* C30, amended: as stated, with the path of a change listed as it is when it
\* is valid Unicode and as the empty string when it is not.
C30_PatchItemUnicodePaths ==
    libcall.op = "headless" =>
        \A k \in DOMAIN libcall.seen :
            /\ PatchBeginAndUnmatchedEnd(k)
            /\ libcall.seen[k].msg = "PatchApplyEnd" =>
                  \A i \in OutstandingPatch(k) :
                      ListsChanges(k,
                          IF libcall.seen[k].success THEN "Completed" ELSE "Failed",
                          {<<IF p.unicode THEN p.os_str ELSE "",
                             libcall.seen[i].changes[p]>> :
                              p \in DOMAIN libcall.seen[i].changes})

\* a patch of two files that fails, then a patch of a file whose path is not
\* Unicode, whose item lists the empty path
C30_Witness ==
    /\ libcall.op = "headless"
    /\ Len(libcall.seen) = 4
    /\ libcall.seen[1].msg = "PatchApplyBegin"
    /\ libcall.seen[2].msg = "PatchApplyEnd" /\ ~ libcall.seen[2].success
    /\ ListsChanges(2, "Failed", {<<"a.rs", "Add">>, <<"b.rs", "Update">>})
    /\ libcall.seen[3].msg = "PatchApplyBegin"
    /\ libcall.seen[4].msg = "PatchApplyEnd"
    /\ ListsChanges(4, "Completed", {<<"", "Delete">>})

\* the item events returned so far, each with its place: the event it answers
\* and its position in the list returned for it
ItemEventPlaces ==
    {<<k, n>> \in (1 .. MaxEvents + 1) \X (1 .. 2) :
        /\ k \in DOMAIN libcall.outs
        /\ n \in DOMAIN libcall.outs[k]
        /\ libcall.outs[k][n].type \in {"ItemStarted", "ItemUpdated", "ItemCompleted"}}

ItemEventAt(p) == libcall.outs[p[1]][p[2]]

Earlier(p, q) == p[1] < q[1] \/ (p[1] = q[1] /\ p[2] < q[2])

\* an item event that follows up an item started before: the completion or
\* update of a command or of a todo list
FollowsUp(e) ==
    /\ e.type \in {"ItemUpdated", "ItemCompleted"}
    /\ e.item.details.kind \in {"CommandExecution", "TodoList"}

\* C31: headless item ids.  Over any sequence of events, every newly created
\* item has an id item_N that no earlier item event carries; every
\* ItemCompleted or ItemUpdated of a command or todo-list item carries the id
\* of an earlier ItemStarted; and no id is in more than one ItemCompleted.
C31_ItemIds ==
    libcall.op = "headless" =>
        \A q \in ItemEventPlaces :
            LET e == ItemEventAt(q)
            IN  /\ e.item.id[1] = "item" /\ e.item.id[2] \in Nat
                /\ IF FollowsUp(e)
                   THEN \E p \in ItemEventPlaces :
                           /\ Earlier(p, q)
                           /\ ItemEventAt(p).type = "ItemStarted"
                           /\ ItemEventAt(p).item.id = e.item.id
                   ELSE \A p \in ItemEventPlaces :
                           Earlier(p, q) => ItemEventAt(p).item.id # e.item.id
                /\ e.type = "ItemCompleted" =>
                      \A p \in ItemEventPlaces :
                          (p # q /\ ItemEventAt(p).type = "ItemCompleted")
                              => ItemEventAt(p).item.id # e.item.id

\* a command and a todo list started, an assistant message in between, the
\* command completed: three ids, the completion carrying the first
C31_Witness ==
    /\ libcall.op = "headless"
    /\ Len(libcall.seen) = 4
    /\ libcall.seen[1].msg = "ExecCommandBegin"
    /\ libcall.seen[2].msg = "PlanUpdate"
    /\ libcall.seen[3].msg = "AgentMessage"
    /\ libcall.seen[4].msg = "ExecCommandEnd"
    /\ libcall.outs[1][1].item.id = <<"item", 0>>
    /\ libcall.outs[2][1].item.id = <<"item", 1>>
    /\ libcall.outs[3][1].item.id = <<"item", 2>>
    /\ libcall.outs[4][1].type = "ItemCompleted"
    /\ libcall.outs[4][1].item.id = <<"item", 0>>

\* C32: the approval overlay sends at most one decision per request.  For any
\* sequence of key events, Ctrl-C and enqueue_request, no two decision ops
\* carry the id of the same request, and an overlay that is done sends no
\* decision op.
C32_OneDecisionPerRequest ==
    /\ [](libcall.op = "overlay" =>
            \A i, j \in DOMAIN DecisionOps(libcall) :
                DecisionOps(libcall)[i].id = DecisionOps(libcall)[j].id => i = j)
    /\ [][(libcall.op = "overlay" /\ libcall.done) =>
              DecisionOps(libcall') = DecisionOps(libcall)]_vars

\* a step in which a key applied a decision to the current request
DecisionApplied ==
    /\ libcall.op = "overlay"
    /\ libcall'.last.call = "handle_key_event"
    /\ DecisionOps(libcall') # DecisionOps(libcall)

\* C33: approval overlay queue order.  When a decision is applied to the
\* current request and requests are queued, the request presented next is the
\* one enqueued last among them (ids count arrivals), the others stay queued
\* in their order, and the overlay is not made done; the overlay becomes done
\* only by a decision applied while the queue is empty or by Ctrl-C.
C33_QueueOrder ==
    [][/\ (DecisionApplied /\ libcall.queue # <<>>) =>
             /\ libcall'.current # None
             /\ \A i \in DOMAIN libcall.queue :
                   libcall.queue[i].id <= libcall'.current.v.id
             /\ libcall'.current.v = libcall.queue[Len(libcall.queue)]
             /\ libcall'.queue = SubSeq(libcall.queue, 1, Len(libcall.queue) - 1)
             /\ ~ libcall'.current_complete
             /\ libcall'.done = libcall.done
       /\ (libcall.op = "overlay" /\ ~ libcall.done /\ libcall'.done) =>
             \/ libcall'.last.call = "on_ctrl_c"
             \/ DecisionApplied /\ libcall.queue = <<>>
      ]_vars

\* two requests came in while the first was shown; after its decision the
\* third is shown and the second still waits
C33_Witness ==
    /\ libcall.op = "overlay"
    /\ libcall.last.call = "handle_key_event"
    /\ Len(DecisionOps(libcall)) = 1
    /\ DecisionOps(libcall)[1].id = 1
    /\ libcall.current.v.id = 3
    /\ Len(libcall.queue) = 1
    /\ libcall.queue[1].id = 2
    /\ ~ libcall.done

\* C34: the API key buffer is wiped.  On every return path of
\* read_auth_header_with (success, read error, too-large input, empty input,
\* invalid UTF-8) every byte of the stack buffer is zero when the function
\* returns, and what it returns holds bytes of the key only on success, in the
\* header.
C34_BufferWiped ==
    ReadReturned =>
        /\ Len(libcall.returned.v.buf) = BUFFER_SIZE
        /\ \A i \in DOMAIN libcall.returned.v.buf : libcall.returned.v.buf[i] = "x00"
        /\ ~ libcall.returned.v.result.ok =>
              \/ libcall.returned.v.result = libcall.read_fn
              \/ libcall.returned.v.result \in
                    {Err("too large"), Err("must be provided"), Err("UTF-8")}

\* a key was read into the buffer and returned in the header, and the buffer
\* is zero
C34_Witness ==
    /\ ReadReturned
    /\ libcall.read_fn.ok
    /\ libcall.read_fn.v = 2
    /\ BytesRead = <<"s", "k">>
    /\ libcall.returned.v.result = Ok(<<"B", "e", "a", "r", "e", "r", " ", "s", "k">>)
    /\ libcall.returned.v.buf[8] = "x00"

LibInit ==
    /\ SchedInit
    /\ libcall \in
          {[op |-> "convert", value |-> v, result |-> None] : v \in SerializedResults}
          \cup {[op |-> "run_with_timeout", timeout |-> d, label |-> l,
                  elapsed |-> 0, fut |-> None, result |-> None] :
                    d \in {None} \cup {Some(n) : n \in Durations}, l \in Labels}
          \cup {[op |-> "deserialize", raw |-> r, result |-> None] :
                    r \in RawMcpServerConfigs}
          \cup {[op |-> "create_env", parent |-> p, extra_env |-> x, result |-> None] :
                    p \in ParentEnvs, x \in ExtraEnvs}
          \cup {[op |-> "shell_env", toml |-> o, parent |-> p, runs |-> <<>>] :
                    o \in ShellEnvironmentPolicyTomls, p \in ShellParentEnvs}
          \cup {new_processor}
          \cup {new_overlay([kind |-> k, id |-> 1]) : k \in {"Exec", "ApplyPatch"}}
          \cup {[op |-> "read_auth_header", read_fn |-> f, returned |-> None] : f \in ReadFns}

LibNext ==
    \/ ConvertCallToolResult
    \/ RwtTick
    \/ \E r \in Outcomes : RequestCompletes(r)
    \/ RunWithTimeoutReturns
    \/ DeserializeMcpServerConfig
    \/ CreateEnvForMcpServer
    \/ CreateEnv
    \/ CollectConversationEvents
    \/ ReadAuthHeaderWith
    \/ HandleKeyEvent
    \/ OnCtrlC
    \/ EnqueueRequest

LibSpec == LibInit /\ [][LibNext]_vars

====
